---------------------------- MODULE Spec2Model ----------------------------
(***************************************************************************)
(* A model of the request/response pipelines of hub.js:                    *)
(*                                                                         *)
(*   - getContent (packages/content/src/content.ts): fetch a content from  *)
(*     the Hub API or the portal API, with a single fallback, then enrich  *)
(*     it (item data, owner org id, dates from the metadata);              *)
(*   - _enrichDates on objects by reference (SpecDates);                   *)
(*   - processFilters (events search): compile IFilter[] into the query    *)
(*     parameters of the events API, with one searchGroups call;           *)
(*   - getFilterQueryParam (SpecQuery) and searchOgcItems with its next()  *)
(*     callbacks (SpecSearch), of the item search (hubSearchItems.ts).     *)
(*                                                                         *)
(* JavaScript values are tagged records: the tag t names the JS type and   *)
(* each type keeps its payload in a field of its own, so that two values   *)
(* of different types are unequal and never compared field by field.       *)
(***************************************************************************)
EXTENDS Integers, Sequences, FiniteSets, TLC

(***************************************************************************)
(* Bounds of the model.                                                    *)
(***************************************************************************)
\* metadata / layer / filter dates are drawn from 1..MaxDate
MaxDate == 1
\* a filter input holds at most MaxEntries predicate entries
MaxEntries == 2
\* date-time strings are spelled for the instants 0..MaxInstant
MaxInstant == 40
\* a search issues at most MaxRequests requests and as many next() calls
MaxRequests == 2
\* _enrichDates is called at most MaxCalls times on the objects of a heap
MaxCalls == 2

(***************************************************************************)
(* JavaScript values.                                                      *)
(***************************************************************************)
Undef == [t |-> "undefined"]
Str(s) == [t |-> "string", s |-> s]
Num(n) == [t |-> "number", n |-> n]
Bool(b) == [t |-> "boolean", b |-> b]
Arr(a) == [t |-> "array", a |-> a]
Obj(o) == [t |-> "object", o |-> o]
Null == [t |-> "null"]
DateV(ms) == [t |-> "date", ms |-> ms]
InvalidDate == [t |-> "date", invalid |-> TRUE]

\* JavaScript truthiness (!!v)
Truthy(v) ==
  CASE v.t \in {"undefined", "null"} -> FALSE
    [] v.t = "string" -> v.s # ""
    [] v.t = "number" -> v.n # 0
    [] v.t = "boolean" -> v.b
    [] OTHER -> TRUE

\* the date-time strings used as inputs, in two spellings of the same instant:
\* "1970-01-01T00:00:00.00nZ" (what toISOString prints) and the same instant
\* written with a numeric offset
Millis(n) ==
  IF n < 10 THEN "00" \o ToString(n)
  ELSE IF n < 100 THEN "0" \o ToString(n) ELSE ToString(n)
IsoString(n) == "1970-01-01T00:00:00." \o Millis(n) \o "Z"
OffsetString(n) == "1970-01-01T00:00:00." \o Millis(n) \o "+00:00"
ParseRange == 0..MaxInstant

\* new Date(v): a number is epoch milliseconds, a string is parsed, anything
\* unparsable gives an Invalid Date
NewDate(v) ==
  CASE v.t = "number" -> DateV(v.n)
    [] v.t = "string" ->
         IF \E n \in ParseRange : v.s \in {IsoString(n), OffsetString(n)}
         THEN DateV(CHOOSE n \in ParseRange : v.s \in {IsoString(n), OffsetString(n)})
         ELSE InvalidDate
    [] v.t = "date" -> v
    [] OTHER -> InvalidDate

\* what a throw leaves in place of a value
Thrown(e) == [t |-> "thrown", error |-> e]

\* Date.prototype.toISOString: throws a RangeError on an Invalid Date
toISOString(d) ==
  IF d = InvalidDate
  THEN Thrown("RangeError: Invalid time value")
  ELSE Str(IsoString(d.ms))

(***************************************************************************)
(* IHubContent: a content is a function from property paths to values; a   *)
(* path the object does not have holds Undef, which is what getProp gives. *)
(***************************************************************************)
UpdateFrequencyPath == "metadata.metadata.dataIdInfo.resMaint.maintFreq.MaintFreqCd.@_value"
ReviseDatePath == "metadata.metadata.dataIdInfo.idCitation.date.reviseDate"
PubDatePath == "metadata.metadata.dataIdInfo.idCitation.date.pubDate"
CreateDatePath == "metadata.metadata.dataIdInfo.idCitation.date.createDate"
LastEditDatePath == "layer.editingInfo.lastEditDate"

Fields ==
  { "id", "owner", "data", "hubType", "orgId", "type", "typeKeywords",
    "updateFrequency", "updatedDate", "updatedDateSource",
    "publishedDate", "publishedDateSource",
    UpdateFrequencyPath, ReviseDatePath, PubDatePath, CreateDatePath,
    LastEditDatePath }

getProp(obj, path) == IF path \in DOMAIN obj THEN obj[path] ELSE Undef

\* includes(array, value)
includes(seq, v) == \E i \in 1..Len(seq) : seq[i] = v


(***************************************************************************)
(* content.ts: the predicates that decide what enrichContent fetches.      *)
(***************************************************************************)
\* a shouldFetchData that forgets "solution"
shouldFetchData_TemplateOnly(hubType) == includes(<<Str("template")>>, hubType)

shouldFetchData(hubType) == includes(<<Str("template"), Str("solution")>>, hubType)

isHubCreatedContent(content) ==
  LET hubTypeKeywords == <<Str("Enterprise Sites"), Str("ArcGIS Hub")>>
      contentTypeKeywords ==
        IF Truthy(content["typeKeywords"]) THEN content["typeKeywords"].a ELSE <<>>
  IN  /\ content["type"] = Str("Web Map")
      /\ \E i \in 1..Len(contentTypeKeywords) :
           includes(hubTypeKeywords, contentTypeKeywords[i])

shouldFetchOrgId(content) == ~Truthy(content["orgId"]) /\ isHubCreatedContent(content)

(***************************************************************************)
(* content.ts: the metadata paths and _enrichDates.                        *)
(***************************************************************************)
getMetadataPath(identifier) ==
  CASE identifier = "updateFrequency" -> UpdateFrequencyPath
    [] identifier = "reviseDate" -> ReviseDatePath
    [] identifier = "pubDate" -> PubDatePath
    [] identifier = "createDate" -> CreateDatePath

getValueFromMetadata(content, identifier) == getProp(content, getMetadataPath(identifier))

\* the codes of updateFrequencyMap; a code that is not a key maps to undefined
updateFrequencyMap(code) ==
  CASE code = Str("001") -> Str("continual")
    [] code = Str("002") -> Str("daily")
    [] code = Str("003") -> Str("weekly")
    [] code = Str("004") -> Str("fortnightly")
    [] code = Str("005") -> Str("monthly")
    [] code = Str("006") -> Str("quarterly")
    [] code = Str("007") -> Str("biannually")
    [] code = Str("008") -> Str("annually")
    [] code = Str("009") -> Str("as-needed")
    [] code = Str("010") -> Str("irregular")
    [] code = Str("011") -> Str("not-planned")
    [] code = Str("012") -> Str("unknown")
    [] code = Str("013") -> Str("semimonthly")
    [] OTHER -> Undef

\* step 1 of _enrichDates: updateFrequency
enrichUpdateFrequency(c) ==
  LET updatedFrequencyValue == getValueFromMetadata(c, "updateFrequency")
  IN  IF Truthy(updatedFrequencyValue)
      THEN [c EXCEPT !["updateFrequency"] = updateFrequencyMap(updatedFrequencyValue)]
      ELSE c

\* an enrichUpdatedDate that looks at lastEditDate before reviseDate
enrichUpdatedDate_LastEditFirst(c) ==
  LET reviseDate == getValueFromMetadata(c, "reviseDate")
      lastEditDate == getProp(c, LastEditDatePath)
  IN  IF Truthy(lastEditDate)
      THEN [c EXCEPT !["updatedDate"] = NewDate(lastEditDate),
                     !["updatedDateSource"] = Str(LastEditDatePath)]
      ELSE IF Truthy(reviseDate)
      THEN [c EXCEPT !["updatedDate"] = NewDate(reviseDate),
                     !["updatedDateSource"] = Str(getMetadataPath("reviseDate"))]
      ELSE c

\* step 2 of _enrichDates: updatedDate and updatedDateSource
enrichUpdatedDate(c) ==
  LET reviseDate == getValueFromMetadata(c, "reviseDate")
      lastEditDate == getProp(c, LastEditDatePath)
  IN  IF Truthy(reviseDate)
      THEN [c EXCEPT !["updatedDate"] = NewDate(reviseDate),
                     !["updatedDateSource"] = Str(getMetadataPath("reviseDate"))]
      ELSE IF Truthy(lastEditDate)
      THEN [c EXCEPT !["updatedDate"] = NewDate(lastEditDate),
                     !["updatedDateSource"] = Str(LastEditDatePath)]
      ELSE c

\* step 3 of _enrichDates: publishedDate and publishedDateSource
enrichPublishedDate(c) ==
  LET pubDate == getValueFromMetadata(c, "pubDate")
      createDate == getValueFromMetadata(c, "createDate")
  IN  IF Truthy(pubDate)
      THEN [c EXCEPT !["publishedDate"] = NewDate(pubDate),
                     !["publishedDateSource"] = Str(getMetadataPath("pubDate"))]
      ELSE IF Truthy(createDate)
      THEN [c EXCEPT !["publishedDate"] = NewDate(createDate),
                     !["publishedDateSource"] = Str(getMetadataPath("createDate"))]
      ELSE c

\* _enrichDates works on a clone of its argument and returns the clone
_enrichDates(content) ==
  enrichPublishedDate(enrichUpdatedDate(enrichUpdateFrequency(content)))


(***************************************************************************)
(* Identifiers (slugs.ts is not part of the sources at hand; the two       *)
(* helpers follow the identifier grammar documented on getContentById:     *)
(* a slug is {orgKey}::{title-as-slug} or {title-as-slug}, a record id is  *)
(* {itemId}_{layerId} or {itemId}).                                        *)
(***************************************************************************)
ItemIds == {"7a153563b0c74f7eb2b3eae8a66f2fbb"}
LayerIds == {"0"}
RecordIds == ItemIds \cup {i \o "_" \o l : i \in ItemIds, l \in LayerIds}
Slugs == {"dc::munis-2020", "munis-2020"}
Identifiers == RecordIds \cup Slugs

isSlug(identifier) == identifier # "" /\ identifier \notin RecordIds

\* parseDatasetId splits the identifier at "_" into itemId and layerId
parseDatasetId(datasetId) ==
  IF \E i \in ItemIds, l \in LayerIds : datasetId = i \o "_" \o l
  THEN LET i == CHOOSE i \in ItemIds : \E l \in LayerIds : datasetId = i \o "_" \o l
       IN  [itemId |-> i,
            layerId |-> Str(CHOOSE l \in LayerIds : datasetId = i \o "_" \o l)]
  ELSE [itemId |-> datasetId, layerId |-> Undef]

(***************************************************************************)
(* The inputs of getContent.                                               *)
(***************************************************************************)
Options(isPortal, token) == [t |-> "options", isPortal |-> isPortal, token |-> token]
OptionsInputs ==
  {Undef} \cup {Options(p, "token-1") : p \in {Undef, Bool(FALSE), Bool(TRUE)}}

Model(item, data) == [t |-> "model", item |-> item, data |-> data]
ModelInputs == {Model(Obj(i), d) : i \in ItemIds, d \in {Undef, Obj("model data")}}

IdOrModelInputs == {Str(i) : i \in Identifiers} \cup ModelInputs

\* options && options.isPortal
isPortalOption(opts) == Truthy(opts) /\ Truthy(opts.isPortal)

(***************************************************************************)
(* What the Hub API and the portal API may answer: a content, or an error. *)
(***************************************************************************)
BaseContent ==
  [f \in Fields |->
     CASE f = "id" -> Str("7a153563b0c74f7eb2b3eae8a66f2fbb")
       [] f = "owner" -> Str("jdoe")
       [] f = "type" -> Str("Feature Service")
       [] f = "hubType" -> Str("dataset")
       [] OTHER -> Undef]

\* contents that differ in what enrichContent looks at
EnrichContents ==
  { [BaseContent EXCEPT !["data"] = d, !["hubType"] = h, !["orgId"] = o,
                        !["type"] = ty, !["typeKeywords"] = k] :
      d \in {Undef, Obj("item data")},
      h \in {Str("template"), Str("solution"), Str("dataset")},
      o \in {Undef, Str(""), Str("org-1")},
      ty \in {Str("Web Map"), Str("Feature Service")},
      k \in {Undef, Arr(<<>>), Arr(<<Str("ArcGIS Hub")>>),
             Arr(<<Str("Data"), Str("Enterprise Sites")>>), Arr(<<Str("Data")>>)} }

ReviseDates == {Undef, Str("")} \cup {Str(OffsetString(d)) : d \in 1..MaxDate}
LastEditDates == {Undef, Num(0)} \cup {Num(100 + d) : d \in 1..MaxDate}
PubDates == {Undef, Str("")} \cup {Str(OffsetString(d)) : d \in 1..MaxDate}
CreateDates == {Undef, Str("")} \cup {Str(IsoString(MaxDate + d)) : d \in 1..MaxDate}
\* updatedDate / publishedDate as the fetch sets them (item.modified, item.created)
ItemDates ==
  { [updated |-> Undef, updatedSource |-> Undef,
     published |-> Undef, publishedSource |-> Undef],
    [updated |-> DateV(50), updatedSource |-> Str("item.modified"),
     published |-> DateV(40), publishedSource |-> Str("item.created")] }

\* contents that differ in what _enrichDates looks at
DateContents ==
  { [BaseContent EXCEPT ![ReviseDatePath] = r, ![LastEditDatePath] = l,
                        ![PubDatePath] = p, ![CreateDatePath] = c,
                        !["updatedDate"] = i.updated,
                        !["updatedDateSource"] = i.updatedSource,
                        !["publishedDate"] = i.published,
                        !["publishedDateSource"] = i.publishedSource] :
      r \in ReviseDates, l \in LastEditDates, p \in PubDates, c \in CreateDates,
      i \in ItemDates }

FrequencyContents ==
  { [BaseContent EXCEPT ![UpdateFrequencyPath] = f] :
      f \in {Str(""), Str("001"), Str("013"), Str("999")} }

Contents == EnrichContents \cup DateContents \cup FrequencyContents

(***************************************************************************)
(* _enrichDates on objects by reference: a heap is the sequence of the     *)
(* objects allocated so far and a reference is an index into it.           *)
(***************************************************************************)
\* cloneObject(obj): a new object with the members of obj
cloneObject(h, ref) == [heap |-> Append(h, h[ref]), ref |-> Len(h) + 1]

\* an _enrichDates that writes on its argument and returns it
_enrichDatesByRef_InPlace(h, ref) ==
  [heap |-> [h EXCEPT ![ref] =
               enrichPublishedDate(enrichUpdatedDate(enrichUpdateFrequency(@)))],
   ref |-> ref]

\* lines 120-173: every assignment is made on newContent, which is returned
_enrichDatesByRef(h, ref) ==
  LET cloned == cloneObject(h, ref)
      newContent == cloned.ref
  IN  [heap |-> [cloned.heap EXCEPT ![newContent] =
                   enrichPublishedDate(enrichUpdatedDate(enrichUpdateFrequency(@)))],
       ref |-> newContent]

HubErrors == {"hub: 404 not found", "hub: 500 server error"}
PortalErrors == {"portal: 403 forbidden", "portal: 400 item does not exist"}
PropertyErrors == {"property: request failed"}

\* what getItemData and getUser(...).orgId may resolve with
PropertyValues(prop) ==
  IF prop = "data" THEN {Obj("fetched item data")}
  ELSE {Str("org-of-owner"), Undef}


(***************************************************************************)
(* processFilters: IFilter[] -> Partial<GetEventsParams>.                  *)
(*                                                                         *)
(* A filter is [operation, predicates]; a predicate is the sequence of its *)
(* own entries [key, value] in insertion order (Object.entries).  The      *)
(* result is a function from parameter names to values: a parameter that   *)
(* was never assigned is not in its domain.                                *)
(***************************************************************************)
Entry(key, v) == [key |-> key, value |-> v]
Filter(predicates) == [operation |-> "AND", predicates |-> predicates]

RECURSIVE Flatten(_)
Flatten(seqs) == IF seqs = <<>> THEN <<>> ELSE Head(seqs) \o Flatten(Tail(seqs))

RECURSIVE Join(_, _)
\* Array.prototype.join over strings
Join(strs, sep) ==
  IF strs = <<>> THEN ""
  ELSE IF Len(strs) = 1 THEN strs[1]
  ELSE strs[1] \o sep \o Join(Tail(strs), sep)

\* String(v), as join and template strings apply it to an element
ToJsString(v) ==
  CASE v.t = "string" -> v.s
    [] v.t = "number" -> ToString(v.n)
    [] v.t = "boolean" -> IF v.b THEN "true" ELSE "false"
    [] v.t = "array" -> Join([i \in 1..Len(v.a) |-> v.a[i].s], ",")
    [] OTHER -> ""

\* every entry of every predicate of every filter, in order
AllEntries(filters) ==
  Flatten([i \in 1..Len(filters) |-> Flatten(filters[i].predicates)])

\* getPredicateValuesByKey (not part of the sources at hand): the values the
\* predicates hold under the key, in order
getPredicateValuesByKey(filters, key) ==
  LET matching == SelectSeq(AllEntries(filters), LAMBDA e : e.key = key)
  IN  [i \in 1..Len(matching) |-> matching[i].value]

\* getOptionalPredicateStringsByKey (not part of the sources at hand): the
\* strings the predicates hold under the key (a string or an array of strings
\* each), joined with ","; nothing when there is none
getOptionalPredicateStringsByKey(filters, key) ==
  LET values == getPredicateValuesByKey(filters, key)
      strings ==
        Flatten([i \in 1..Len(values) |->
                   IF values[i].t = "array"
                   THEN [j \in 1..Len(values[i].a) |-> values[i].a[j].s]
                   ELSE <<values[i].s>>])
  IN  IF Join(strings, ",") = "" THEN Undef ELSE Str(Join(strings, ","))

\* isUpdateGroup (not part of the sources at hand): the group's capabilities
\* include "updateitemcontrol"
isUpdateGroup(group) == includes(group.capabilities, "updateitemcontrol")

NoParams == [k \in {} |-> Undef]
\* processedFilters[param] = v
Assign(pf, param, v) ==
  [k \in DOMAIN pf \cup {param} |-> IF k = param THEN v ELSE pf[k]]

\* x?.length, as a condition
hasLength(v) == v.t = "string" /\ v.s # ""

\* const x = getOptionalPredicateStringsByKey(filters, key);
\* if (x?.length) { processedFilters[param] = x; }
assignStrings(pf, param, filters, key) ==
  LET x == getOptionalPredicateStringsByKey(filters, key)
  IN  IF hasLength(x) THEN Assign(pf, param, x) ELSE pf

\* const x = getPredicateValuesByKey(filters, key);
\* if (x.length) { processedFilters[param] = x[0]; }
assignFirst(pf, param, filters, key) ==
  LET x == getPredicateValuesByKey(filters, key)
  IN  IF Len(x) > 0 THEN Assign(pf, param, x[1]) ELSE pf

\* lines 181-216: access .. tags
processPlainFilters(filters) ==
  LET canEdit == getPredicateValuesByKey(filters, "canEdit")
      p1 == assignStrings(NoParams, "access", filters, "access")
      p2 == IF Len(canEdit) > 0
            THEN Assign(p1, "canEdit", Str(ToJsString(canEdit[1])))
            ELSE p1
      p3 == assignStrings(p2, "entityIds", filters, "entityId")
      p4 == assignStrings(p3, "entityTypes", filters, "entityType")
      p5 == assignStrings(p4, "eventIds", filters, "id")
      p6 == assignFirst(p5, "title", filters, "term")
      p7 == assignFirst(p6, "orgId", filters, "orgId")
      p8 == assignStrings(p7, "categories", filters, "categories")
  IN  assignStrings(p8, "tags", filters, "tags")

\* a processGroups that sets readGroups / editGroups next to sharedToGroups
processGroups_NoPriority(pf, filters) ==
  LET groupIds == getOptionalPredicateStringsByKey(filters, "group")
      p1 == IF hasLength(groupIds) THEN Assign(pf, "sharedToGroups", groupIds) ELSE pf
  IN  assignStrings(assignStrings(p1, "readGroups", filters, "readGroupId"),
                    "editGroups", filters, "editGroupId")

\* lines 217-239: group before readGroupId / editGroupId
processGroups(pf, filters) ==
  LET groupIds == getOptionalPredicateStringsByKey(filters, "group")
  IN  IF hasLength(groupIds)
      THEN Assign(pf, "sharedToGroups", groupIds)
      ELSE assignStrings(assignStrings(pf, "readGroups", filters, "readGroupId"),
                         "editGroups", filters, "editGroupId")

\* lines 246-250: the searchGroups request for the notGroup ids
searchGroupsRequest(notGroupIds, requestOptions) ==
  [q |-> "id:(" \o Join([i \in 1..Len(notGroupIds) |-> ToJsString(notGroupIds[i])],
                          " OR ") \o ")",
   num |-> Len(notGroupIds),
   options |-> requestOptions]

\* a partition with the two keys swapped
partitionGroupIds_Swapped(results, update) ==
  LET kept == SelectSeq(results, LAMBDA group : isUpdateGroup(group) # update)
  IN  [i \in 1..Len(kept) |-> kept[i].id]

\* lines 251-259: the ids of the groups that are (update = TRUE) or are not
\* (update = FALSE) update groups, in the order of the results
partitionGroupIds(results, update) ==
  LET kept == SelectSeq(results, LAMBDA group : isUpdateGroup(group) = update)
  IN  [i \in 1..Len(kept) |-> kept[i].id]

\* lines 251-265: the results of searchGroups, split into read and edit groups
processNotGroups(pf, results) ==
  LET notReadGroupIds == partitionGroupIds(results, FALSE)
      notEditGroupIds == partitionGroupIds(results, TRUE)
      p1 == IF Len(notReadGroupIds) > 0
            THEN Assign(pf, "withoutReadGroups", Str(Join(notReadGroupIds, ",")))
            ELSE pf
  IN  IF Len(notEditGroupIds) > 0
      THEN Assign(p1, "withoutEditGroups", Str(Join(notEditGroupIds, ",")))
      ELSE p1

\* lines 267-281: notReadGroupId / notEditGroupId, when there is no notGroup
processNotReadEditGroups(pf, filters) ==
  assignStrings(assignStrings(pf, "withoutReadGroups", filters, "notReadGroupId"),
                "withoutEditGroups", filters, "notEditGroupId")

\* EventStatus (the events API's enum is not part of the sources at hand)
EventStatus == [PLANNED |-> "PLANNED", CANCELED |-> "CANCELED", REMOVED |-> "REMOVED"]

\* String.prototype.toLowerCase, on the names of the enum
toLowerCase(str) ==
  CASE str = "PLANNED" -> "planned"
    [] str = "CANCELED" -> "canceled"
    [] str = "REMOVED" -> "removed"
    [] OTHER -> str

\* a processStatus that sets status only from the predicate
processStatus_NoDefault(pf, filters) ==
  assignStrings(
    assignStrings(assignStrings(pf, "attendanceTypes", filters, "attendanceType"),
                  "createdByIds", filters, "owner"),
    "status", filters, "status")

\* lines 283-299: attendanceType, owner and status with its default
processStatus(pf, filters) ==
  LET p1 == assignStrings(pf, "attendanceTypes", filters, "attendanceType")
      p2 == assignStrings(p1, "createdByIds", filters, "owner")
      status == getOptionalPredicateStringsByKey(filters, "status")
  IN  Assign(p2, "status",
             IF hasLength(status) THEN status
             ELSE Str(Join(<<toLowerCase(EventStatus.PLANNED),
                             toLowerCase(EventStatus.CANCELED)>>, ",")))

\* a processDates that lets before / after fill what the range leaves unset
processDates_FillFromIndividual(pf, filters, rangeKey, beforeKey, afterKey, beforeParam, afterParam) ==
  LET range == getPredicateValuesByKey(filters, rangeKey)
      before == getPredicateValuesByKey(filters, beforeKey)
      after == getPredicateValuesByKey(filters, afterKey)
      p1 == IF Len(range) > 0 /\ Truthy(range[1].to)
            THEN Assign(pf, beforeParam, toISOString(NewDate(range[1].to)))
            ELSE IF Len(before) > 0
            THEN Assign(pf, beforeParam, toISOString(NewDate(before[1])))
            ELSE pf
  IN  IF Len(range) > 0 /\ Truthy(range[1].from)
      THEN Assign(p1, afterParam, toISOString(NewDate(range[1].from)))
      ELSE IF Len(after) > 0
      THEN Assign(p1, afterParam, toISOString(NewDate(after[1])))
      ELSE p1

\* lines 300-337 and 338-375: a date range before the individual before / after
processDates(pf, filters, rangeKey, beforeKey, afterKey, beforeParam, afterParam) ==
  LET range == getPredicateValuesByKey(filters, rangeKey)
      before == getPredicateValuesByKey(filters, beforeKey)
      after == getPredicateValuesByKey(filters, afterKey)
  IN  IF Len(range) > 0
      THEN LET p1 == IF Truthy(range[1].to)
                     THEN Assign(pf, beforeParam, toISOString(NewDate(range[1].to)))
                     ELSE pf
           IN  IF Truthy(range[1].from)
               THEN Assign(p1, afterParam, toISOString(NewDate(range[1].from)))
               ELSE p1
      ELSE LET p1 == IF Len(before) > 0
                     THEN Assign(pf, beforeParam, toISOString(NewDate(before[1])))
                     ELSE pf
           IN  IF Len(after) > 0
               THEN Assign(p1, afterParam, toISOString(NewDate(after[1])))
               ELSE p1

processStartDates(pf, filters) ==
  processDates(pf, filters, "startDateRange", "startDateBefore", "startDateAfter",
               "startDateTimeBefore", "startDateTimeAfter")

processEndDates(pf, filters) ==
  processDates(pf, filters, "endDateRange", "endDateBefore", "endDateAfter",
               "endDateTimeBefore", "endDateTimeAfter")

\* the number of times new Date() is evaluated for the occurrence values
RECURSIVE clockReads(_)
clockReads(occurrence) ==
  IF occurrence = <<>> THEN 0
  ELSE (CASE Head(occurrence) = Str("inProgress") -> 2
          [] Head(occurrence) \in {Str("upcoming"), Str("past")} -> 1
          [] OTHER -> 0) + clockReads(Tail(occurrence))

RECURSIVE processOccurrence_KeepDates(_, _, _)
\* a processOccurrence that sets only the fields the date predicates left unset
processOccurrence_KeepDates(pf, occurrence, times) ==
  LET set(p, param, time) ==
        IF param \in DOMAIN p THEN p ELSE Assign(p, param, toISOString(DateV(time)))
  IN  IF occurrence = <<>> THEN pf
      ELSE LET o == Head(occurrence)
           IN  CASE o = Str("upcoming") ->
                      processOccurrence_KeepDates(set(pf, "startDateTimeAfter", times[1]),
                                                  Tail(occurrence), Tail(times))
                 [] o = Str("past") ->
                      processOccurrence_KeepDates(set(pf, "endDateTimeBefore", times[1]),
                                                  Tail(occurrence), Tail(times))
                 [] o = Str("inProgress") ->
                      processOccurrence_KeepDates(
                        set(set(pf, "startDateTimeBefore", times[1]),
                            "endDateTimeAfter", times[2]),
                        Tail(occurrence), Tail(Tail(times)))
                 [] OTHER -> processOccurrence_KeepDates(pf, Tail(occurrence), times)

RECURSIVE processOccurrence(_, _, _)
\* lines 379-395: occurrence.forEach; times are the instants the successive
\* evaluations of new Date() give
processOccurrence(pf, occurrence, times) ==
  IF occurrence = <<>> THEN pf
  ELSE LET o == Head(occurrence)
       IN  CASE o = Str("upcoming") ->
                  processOccurrence(
                    Assign(pf, "startDateTimeAfter", toISOString(DateV(times[1]))),
                    Tail(occurrence), Tail(times))
             [] o = Str("past") ->
                  processOccurrence(
                    Assign(pf, "endDateTimeBefore", toISOString(DateV(times[1]))),
                    Tail(occurrence), Tail(times))
             [] o = Str("inProgress") ->
                  processOccurrence(
                    Assign(Assign(pf, "startDateTimeBefore", toISOString(DateV(times[1]))),
                           "endDateTimeAfter", toISOString(DateV(times[2]))),
                    Tail(occurrence), Tail(Tail(times)))
             [] OTHER -> processOccurrence(pf, Tail(occurrence), times)


(***************************************************************************)
(* The inputs of processFilters.  The entries of an input come from one    *)
(* family of predicate keys at a time; every source of a date parameter    *)
(* has values of its own, so that the parameter tells where it came from.  *)
(***************************************************************************)
PlainEntries ==
  {Entry("access", v) : v \in {Str("public"), Arr(<<Str("public"), Str("private")>>)}}
    \cup {Entry("canEdit", v) : v \in {Bool(TRUE), Bool(FALSE)}}
    \cup {Entry("entityId", Str("entity-1")), Entry("entityType", Str("discussion")),
          Entry("id", Str("event-1")), Entry("term", Str("fair")),
          Entry("orgId", Str("org-1")), Entry("categories", Str("music")),
          Entry("tags", Arr(<<Str("a"), Str("b")>>)),
          Entry("attendanceType", Str("virtual")), Entry("owner", Str("jdoe"))}
    \cup {Entry("status", v) :
            v \in {Str("planned"), Arr(<<Str("draft"), Str("removed")>>), Arr(<<>>)}}

GroupEntries ==
  {Entry("group", v) : v \in {Str("g1"), Arr(<<Str("g1"), Str("g2")>>), Arr(<<>>)}}
    \cup {Entry("readGroupId", v) : v \in {Str("g3"), Arr(<<>>)}}
    \cup {Entry("editGroupId", v) : v \in {Str("g4"), Arr(<<>>)}}

NotGroupEntries ==
  {Entry("notGroup", v) : v \in {Str("g1"), Str("g2"), Arr(<<Str("g1"), Str("g2")>>)}}
    \cup {Entry("notReadGroupId", Str("g3")), Entry("notEditGroupId", Str("g4"))}

DateRange(from, to) == [t |-> "range", from |-> from, to |-> to]

\* the values of a range's to and from, and of a before / after predicate
RangeTo == {Undef} \cup {Num(d) : d \in 1..MaxDate}
RangeFrom == {Undef} \cup {Num(5 + d) : d \in 1..MaxDate}
BeforeValues ==
  {Num(10 + d) : d \in 1..MaxDate} \cup {Str(OffsetString(15 + d)) : d \in 1..MaxDate}
    \cup {Str("not a date")}
AfterValues ==
  {Num(20 + d) : d \in 1..MaxDate} \cup {Str(OffsetString(25 + d)) : d \in 1..MaxDate}
    \cup {Str("not a date")}

DateEntries(rangeKey, beforeKey, afterKey) ==
  {Entry(rangeKey, DateRange(f, t)) : f \in RangeFrom, t \in RangeTo}
    \cup {Entry(rangeKey, DateRange(Num(0), Str("")))}
    \cup {Entry(beforeKey, v) : v \in BeforeValues}
    \cup {Entry(afterKey, v) : v \in AfterValues}

StartEntries == DateEntries("startDateRange", "startDateBefore", "startDateAfter")
EndEntries == DateEntries("endDateRange", "endDateBefore", "endDateAfter")

OccurrenceEntries ==
  {Entry("occurrence", Str(o)) : o \in {"upcoming", "past", "inProgress", "other"}}
    \cup {Entry("startDateRange", DateRange(Num(6), Num(1))),
          Entry("endDateRange", DateRange(Num(6), Num(1))),
          Entry("startDateBefore", Num(11)), Entry("startDateAfter", Num(21)),
          Entry("endDateBefore", Num(11)), Entry("endDateAfter", Num(21))}

Families ==
  {PlainEntries, GroupEntries, NotGroupEntries, StartEntries, EndEntries,
   OccurrenceEntries}

\* no key twice: the entries can be those of one object
distinctKeys(es) == \A i, j \in 1..Len(es) : es[i].key = es[j].key => i = j

\* the three ways the entries are laid out: a filter each, a predicate each
\* in one filter, or all in one predicate
LayoutNames == {"filters", "predicates", "entries"}
Layout(name, es) ==
  CASE name = "filters" -> [i \in 1..Len(es) |-> Filter(<< <<es[i]>> >>)]
    [] name = "predicates" -> << Filter([i \in 1..Len(es) |-> <<es[i]>>]) >>
    [] name = "entries" -> << Filter(<<es>>) >>

\* filters is an input of processFilters
IsFilterInput(filters) ==
  \E family \in Families, n \in 0..MaxEntries :
    \E es \in [1..n -> family], name \in LayoutNames :
      /\ name = "entries" => distinctKeys(es)
      /\ filters = Layout(name, es)

\* what searchGroups may resolve with for a request of num groups
GroupIds == {"g1", "g2"}
Groups == [id : GroupIds, capabilities : {<<>>, <<"updateitemcontrol">>}]
SearchResults(num) ==
  {r \in UNION {[1..n -> Groups] : n \in 0..num} :
     \A i, j \in 1..Len(r) : r[i].id = r[j].id => i = j}

SearchErrors == {"searchGroups: 500 server error"}
RangeError == "RangeError: Invalid time value"
ClockStart == 31

(***************************************************************************)
(* The query compiler of the item search (hubSearchItems.ts).  A predicate *)
(* is the sequence of its entries, in the order of Object.entries.         *)
(***************************************************************************)
\* an IMatchOptions value
Match(any, all, not) == [t |-> "match", any |-> any, all |-> all, not |-> not]
IFilter(operation, predicates) == [operation |-> operation, predicates |-> predicates]
IQuery(queryFilters) == [filters |-> queryFilters]

\* Array.prototype.join on an array of strings
arrayJoin(arr, sep) == Join([i \in 1..Len(arr.a) |-> ToJsString(arr.a[i])], sep)

\* a && b
AndAlso(a, b) == IF Truthy(a) THEN b ELSE a

\* the part of an IMatchOptions, undefined on any other value
matchPart(v, part) == IF v.t = "match" THEN v[part] ELSE Undef

\* lines 176-191: the section of one field of a predicate
formatSection(field, v) ==
  IF v.t = "string" THEN field \o "=" \o v.s
  ELSE IF v.t = "array" THEN field \o " IN (" \o arrayJoin(v, ", ") \o ")"
  ELSE LET any == matchPart(v, "any")
           all == matchPart(v, "all")
           not == matchPart(v, "not")
           anys == AndAlso(any, Str(field \o " IN (" \o arrayJoin(any, ", ") \o ")"))
           alls == AndAlso(all, Str(Join([i \in 1..Len(all.a) |->
                                            field \o "=" \o ToJsString(all.a[i])],
                                         " AND ")))
           nots == AndAlso(not, Str(field \o " NOT IN (" \o arrayJoin(not, ", ") \o ")"))
           subsections == SelectSeq(<<anys, alls, nots>>, Truthy)
       IN  Join([i \in 1..Len(subsections) |-> subsections[i].s], " AND ")

\* lines 170-199
formatPredicate(predicate) ==
  LET entries == SelectSeq(predicate, LAMBDA e : Truthy(e.value))
      sections == [i \in 1..Len(entries) |->
                     formatSection(entries[i].key, entries[i].value)]
  IN  "(" \o Join(sections, " AND ") \o ")"

\* a formatFilterBlock whose operation defaults to AND
formatFilterBlock_DefaultAnd(filter) ==
  LET operation == IF Truthy(filter.operation) THEN filter.operation.s ELSE "AND"
      formatted == Join([i \in 1..Len(filter.predicates) |->
                           formatPredicate(filter.predicates[i])],
                        " " \o operation \o " ")
  IN  "(" \o formatted \o ")"

\* lines 162-168
formatFilterBlock(filter) ==
  LET operation == IF Truthy(filter.operation) THEN filter.operation.s ELSE "OR"
      formatted == Join([i \in 1..Len(filter.predicates) |->
                           formatPredicate(filter.predicates[i])],
                        " " \o operation \o " ")
  IN  "(" \o formatted \o ")"

\* lines 158-160
getFilterQueryParam(query) ==
  Join([i \in 1..Len(query.filters) |-> formatFilterBlock(query.filters[i])], " AND ")

(***************************************************************************)
(* The inputs of getFilterQueryParam: the entries of a query come from one *)
(* family at a time and are laid out a filter each, a predicate each in    *)
(* one filter, or all in one predicate; the filters share their operation. *)
(***************************************************************************)
PlainQueryEntries ==
  {Entry("type", v) : v \in {Undef, Str(""), Str("Web Map")}}
    \cup {Entry("tags", v) : v \in {Num(0), Arr(<<>>), Arr(<<Str("a"), Str("b")>>)}}
    \cup {Entry("owner", Str("jdoe")), Entry("isopendata", Bool(TRUE))}

MatchParts == {Undef, Arr(<<Str("x")>>)}
MatchQueryEntries ==
  {Entry("tags", Match(any, all, not)) : any \in MatchParts, all \in MatchParts,
                                           not \in MatchParts}
    \cup {Entry("tags", Match(Arr(<<Str("x"), Str("y")>>), Arr(<<Str("x"), Str("y")>>),
                              Arr(<<Str("x"), Str("y")>>))),
          Entry("tags", Match(Arr(<<>>), Arr(<<>>), Arr(<<>>))),
          Entry("type", Str("Web Map")), Entry("type", Undef)}

QueryFamilies == {PlainQueryEntries, MatchQueryEntries}
Operations == {Undef, Str("AND"), Str("OR")}

QueryLayout(name, operation, es) ==
  CASE name = "filters" -> [i \in 1..Len(es) |-> IFilter(operation, << <<es[i]>> >>)]
    [] name = "predicates" -> << IFilter(operation, [i \in 1..Len(es) |-> <<es[i]>>]) >>
    [] name = "entries" -> << IFilter(operation, <<es>>) >>

\* q is an input of getFilterQueryParam
IsQueryInput(q) ==
  \E family \in QueryFamilies, n \in 0..MaxEntries :
    \E es \in [1..n -> family], name \in LayoutNames, operation \in Operations :
      /\ name = "entries" => distinctKeys(es)
      /\ q = IQuery(QueryLayout(name, operation, es))

(***************************************************************************)
(* The request and the response of the item search (hubSearchItems.ts).    *)
(***************************************************************************)
ApiUrl == "https://hub.arcgis.com/api/search/v1/collections/all"
Function(name) == [t |-> "function", name |-> name]
GlobalFetch == Function("fetch")
FetchOverride == Function("requestOptions.fetch")

\* IHubSearchOptions, with the members the search reads
HubRequestOptions(authentication, fetch) == [authentication |-> authentication, fetch |-> fetch]
HubSearchOptions(num, start, hubRequestOptions) ==
  [api |-> [url |-> ApiUrl], num |-> num, start |-> start,
   requestOptions |-> hubRequestOptions]

\* getProp(options, "requestOptions.authentication.token")
tokenOf(options) ==
  IF options.requestOptions = Undef THEN Undef
  ELSE IF options.requestOptions.authentication = Undef THEN Undef
  ELSE options.requestOptions.authentication.token

\* lines 145-156: the parameters, in the order of the object literal
getOgcItemQueryParams(query, options) ==
  <<Entry("filter", Str(getFilterQueryParam(query))),
    Entry("token", tokenOf(options)),
    Entry("limit", options.num),
    Entry("startindex", options.start)>>

\* lines 136-143
getQueryString(queryParams) ==
  LET entries == SelectSeq(queryParams, LAMBDA e : Truthy(e.value))
      result == Join([i \in 1..Len(entries) |->
                        entries[i].key \o "=" \o ToJsString(entries[i].value)], "&")
  IN  IF result = "" THEN result ELSE "?" \o result

\* line 105: options.requestOptions?.fetch || fetch
fetchOf(options) ==
  IF options.requestOptions # Undef /\ Truthy(options.requestOptions.fetch)
  THEN options.requestOptions.fetch
  ELSE GlobalFetch

\* lines 105-107: the call of _fetch
fetchRequest(url, queryParams, options) ==
  [fetch |-> fetchOf(options),
   url |-> url \o getQueryString(queryParams),
   init |-> [method |-> "GET"],
   queryParams |-> queryParams]

\* new RemoteServerError(message, url, status)
RemoteServerError(message, url, status) ==
  [name |-> "RemoteServerError", message |-> message, url |-> url, status |-> status]

\* the links of an IOgcResponse; the href of a next link names the start of
\* the next page, or (NoStartHref) does not
OgcLink(rel, href) == [t |-> "link", rel |-> rel, href |-> href]
StartIndexes == {11, 21}
NextHref(n) == ApiUrl \o "/items?limit=10&startindex=" \o ToString(n)
NoStartHref == ApiUrl \o "/items?limit=10"
SelfLink == OgcLink("self", ApiUrl \o "/items")

\* new URL(href).searchParams.get("startindex"), for these hrefs
searchParamsGet(href) ==
  IF \E n \in StartIndexes : href = NextHref(n)
  THEN Str(ToString(CHOOSE n \in StartIndexes : href = NextHref(n)))
  ELSE Null

\* unary plus, on null and on the numerals of StartIndexes
ToNumber(v) ==
  IF v = Null THEN Num(0)
  ELSE Num(CHOOSE n \in StartIndexes : ToString(n) = v.s)

\* Array.prototype.find: the first link with the rel, or undefined
findLink(links, rel) ==
  LET found == SelectSeq(links, LAMBDA l : l.rel = rel)
  IN  IF found = <<>> THEN Undef ELSE found[1]

\* itemToSearchResult (portalSearchItems), on the members of the model's items
itemToSearchResult(item) == [id |-> item.id, type |-> item.type, name |-> item.title]

\* lines 243-253
ogcItemToSearchResult(ogcItem) == itemToSearchResult(ogcItem.properties)

\* the promise an async function returns
Promise == [t |-> "promise"]

\* line 230: () => null
NullCallback == [t |-> "function", name |-> "() => null"]

\* lines 232-237: the callback, with the variables it closes over
NextCallback(nextLink, originalQuery, originalOptions) ==
  [t |-> "function", name |-> "() => searchOgcItems", nextLink |-> nextLink,
   originalQuery |-> originalQuery, originalOptions |-> originalOptions]

\* lines 223-241
getNextOgcCallback(ogcResponse, originalQuery, originalOptions) ==
  LET nextLink == findLink(ogcResponse.links, "next")
  IN  IF Truthy(nextLink)
      THEN NextCallback(nextLink, originalQuery, originalOptions)
      ELSE NullCallback

\* lines 204-221
formatOgcSearchResponse(ogcResponse, originalQuery, originalOptions) ==
  LET nextLink == findLink(ogcResponse.links, "next")
  IN  [total |-> ogcResponse.numberMatched,
       results |-> [i \in 1..Len(ogcResponse.features) |->
                      ogcItemToSearchResult(ogcResponse.features[i])],
       hasNext |-> Truthy(nextLink),
       next |-> getNextOgcCallback(ogcResponse, originalQuery, originalOptions)]

(***************************************************************************)
(* The inputs of searchOgcItems and what the API may answer.               *)
(***************************************************************************)
SearchQueries ==
  {IQuery(<<>>),
   IQuery(<<IFilter(Undef, <<<<Entry("type", Str("Web Map"))>>>>)>>)}

SearchOptionsInputs ==
  {HubSearchOptions(num, start, ro) :
     num \in {Undef, Num(10)}, start \in {Undef, Num(1)},
     ro \in {Undef,
             HubRequestOptions([token |-> Str("token-1")], Undef),
             HubRequestOptions(Undef, FetchOverride)}}

OgcItem(id) ==
  [id |-> id, type |-> "Feature",
   properties |-> [id |-> id, type |-> "Web Map", title |-> "Item " \o id]]

LinkLists ==
  {<<>>, <<SelfLink>>, <<SelfLink, OgcLink("next", NoStartHref)>>}
    \cup {<<SelfLink, OgcLink("next", NextHref(n))>> : n \in StartIndexes}
    \cup {<<OgcLink("next", NextHref(21)), OgcLink("next", NextHref(11))>>}

OgcResponses ==
  {[ok |-> TRUE, status |-> 200, statusText |-> "OK",
    features |-> IF links = <<>> THEN <<>> ELSE <<OgcItem("a1")>>,
    numberMatched |-> IF links = <<>> THEN 0 ELSE 25,
    links |-> links] : links \in LinkLists}

FailedResponses ==
  {[ok |-> FALSE, status |-> 404, statusText |-> "Not Found"],
   [ok |-> FALSE, status |-> 500, statusText |-> "Internal Server Error"]}

FetchErrors == {"TypeError: Failed to fetch"}

(***************************************************************************)
(* State of one getContent call.                                           *)
(***************************************************************************)
VARIABLES
  idOrModel,   \* first argument of getContent
  options,     \* second argument of getContent
  pc,          \* where the promise chain stands
  content,     \* the content enrichContent works on
  pending,     \* the properties _fetchContentProperties has still to fetch
  events,      \* history: requests issued, answers received, functions applied
  response,    \* history: the content the Hub or portal API answered with
  fetched,     \* history: the content enrichContent was called with
  toFetch,     \* history: the keys of propertiesToFetch in enrichContent
  hubError,    \* history: the error the Hub API answered with
  portalError, \* history: the error the portal API answered with
  datesIn,     \* history: the argument _enrichDates was applied to
  settled,     \* "pending", "resolved" or "rejected": the promise getContent returned
  value,       \* what the promise resolved with
  error        \* what the promise rejected with

cvars ==
  <<idOrModel, options, pc, content, pending, events, response, fetched, toFetch,
    hubError, portalError, datesIn, settled, value, error>>

NoError == "none"

Request(api, arg, opts) == [kind |-> "request", api |-> api, arg |-> arg, options |-> opts]
Answer(kind, api) == [kind |-> kind, api |-> api, arg |-> Undef, options |-> Undef]

(***************************************************************************)
(* State of one processFilters call.                                       *)
(***************************************************************************)
VARIABLES
  filters,          \* first argument of processFilters
  requestOptions,   \* second argument of processFilters
  fpc,              \* where the async function stands
  processedFilters, \* the local processedFilters; the result once resolved
  searchRequests,   \* history: the searchGroups requests issued
  searchResults,    \* history: the results searchGroups resolved with
  clock,            \* the instant the next new Date() gives, at the earliest
  times,            \* history: the instants the evaluations of new Date() gave
  fsettled,         \* "pending", "resolved" or "rejected": the promise returned
  ferror            \* what the promise rejected with

fvars ==
  <<filters, requestOptions, fpc, processedFilters, searchRequests, searchResults,
    clock, times, fsettled, ferror>>

(***************************************************************************)
(* State of one getFilterQueryParam call and of one searchOgcItems call    *)
(* with the next() calls that follow it.                                   *)
(***************************************************************************)
VARIABLES
  query,         \* the IQuery argument
  qpc,           \* where the getFilterQueryParam call stands
  filterParam,   \* what getFilterQueryParam returned
  searchOptions, \* the IHubSearchOptions argument of the first searchOgcItems call
  spc,           \* where the searchOgcItems call under way stands
  ogcCalls,      \* history: the searchOgcItems calls, with their arguments
  ogcRequests,   \* history: the requests handed to fetch
  ogcOutcomes,   \* history: what each searchOgcItems call settled with
  nextReturns    \* history: the next() calls and what they returned

svars ==
  <<query, qpc, filterParam, searchOptions, spc, ogcCalls, ogcRequests, ogcOutcomes,
    nextReturns>>

(***************************************************************************)
(* The objects _enrichDates works on: a heap of contents by reference.     *)
(***************************************************************************)
VARIABLES
  heap,          \* the content each reference points to
  enrichCalls    \* history: the _enrichDates calls

dvars == <<heap, enrichCalls>>

vars == <<cvars, fvars, svars, dvars>>

\* what a getContent, a processFilters, a search step leaves alone
notContent == <<fvars, svars, dvars>>
notFilters == <<cvars, svars, dvars>>
notSearch == <<cvars, fvars, dvars>>
notDates == <<cvars, fvars, svars>>

\* no getFilterQueryParam and no searchOgcItems call
IdleSearch ==
  /\ query = Undef
  /\ qpc = "idle"
  /\ filterParam = Undef
  /\ searchOptions = Undef
  /\ spc = "idle"
  /\ ogcCalls = <<>>
  /\ ogcRequests = <<>>
  /\ ogcOutcomes = <<>>
  /\ nextReturns = <<>>

\* no _enrichDates call
IdleDates ==
  /\ heap = <<>>
  /\ enrichCalls = <<>>

\* no processFilters call
IdleFilters ==
  /\ filters = <<>>
  /\ requestOptions = Undef
  /\ fpc = "idle"
  /\ processedFilters = NoParams
  /\ searchRequests = <<>>
  /\ searchResults = <<>>
  /\ clock = ClockStart
  /\ times = <<>>
  /\ fsettled = "pending"
  /\ ferror = NoError

\* no getContent call
IdleContent ==
  /\ idOrModel = Undef
  /\ options = Undef
  /\ pc = "idle"
  /\ content = BaseContent
  /\ pending = <<>>
  /\ events = <<>>
  /\ response = BaseContent
  /\ fetched = BaseContent
  /\ toFetch = <<>>
  /\ hubError = NoError
  /\ portalError = NoError
  /\ datesIn = BaseContent
  /\ settled = "pending"
  /\ value = BaseContent
  /\ error = NoError

InitContent ==
  /\ idOrModel \in IdOrModelInputs
  /\ options \in OptionsInputs
  /\ pc = "start"
  /\ content = BaseContent
  /\ pending = <<>>
  /\ events = <<>>
  /\ response = BaseContent
  /\ fetched = BaseContent
  /\ toFetch = <<>>
  /\ hubError = NoError
  /\ portalError = NoError
  /\ datesIn = BaseContent
  /\ settled = "pending"
  /\ value = BaseContent
  /\ error = NoError
  /\ IdleFilters
  /\ IdleSearch
  /\ IdleDates

\* getOwnerOrgId and getContentData: the request each property fetch issues
propertyRequest(prop, c, opts) ==
  IF prop = "data"
  THEN Request("getItemData", c["id"], opts)
  ELSE Request("getUser", c["owner"], opts)

\* enrichContent, lines 185-191: the keys of propertiesToFetch, in insertion order
propertiesToFetch(c) ==
  (IF ~Truthy(c["data"]) /\ shouldFetchData(c["hubType"]) THEN <<"data">> ELSE <<>>)
    \o (IF shouldFetchOrgId(c) THEN <<"orgId">> ELSE <<>>)

\* _fetchContentProperties (portal.ts is not part of the sources at hand): the
\* requested properties are fetched one after the other and merged into the content
fetchContentProperties(props, c, ev) ==
  /\ content' = c
  /\ pending' = props
  /\ events' = Append(ev, propertyRequest(Head(props), c, options))
  /\ pc' = "fetchProps"

\* an enrichContent that does not wait for the properties it asked for
enrichContent_NoWait(c, ev) ==
  /\ fetched' = c
  /\ toFetch' = propertiesToFetch(c)
  /\ content' = c
  /\ pending' = <<>>
  /\ events' = ev \o [i \in 1..Len(propertiesToFetch(c)) |->
                        propertyRequest(propertiesToFetch(c)[i], c, options)]
  /\ pc' = "enrichDates"

\* enrichContent(c, options), run by the then-callback of the content fetch;
\* ev is the history up to the call
enrichContent(c, ev) ==
  /\ fetched' = c
  /\ toFetch' = propertiesToFetch(c)
  /\ IF Len(propertiesToFetch(c)) = 0
     THEN \* Promise.resolve(content).then(_enrichDates)
          /\ content' = c
          /\ pending' = <<>>
          /\ events' = ev
          /\ pc' = "enrichDates"
     ELSE fetchContentProperties(propertiesToFetch(c), c, ev)

\* a getContentById that asks the Hub API whatever the options
getContentById_HubFirst(identifier) ==
  /\ events' = <<Request("hub", Str(identifier), options)>>
  /\ pc' = "hub"

\* getContentById(identifier, options), up to the first request
getContentById(identifier) ==
  IF isPortalOption(options)
  THEN /\ events' = <<Request("portal", Str(parseDatasetId(identifier).itemId), options)>>
       /\ pc' = "portal"
  ELSE /\ events' = <<Request("hub", Str(identifier), options)>>
       /\ pc' = "hub"

\* getContent(idOrModel, options), up to the first request
GetContent ==
  /\ pc = "start"
  /\ IF idOrModel.t = "string"
     THEN getContentById(idOrModel.s)
     ELSE /\ events' = <<Request("portal", idOrModel.item, options)>>
          /\ pc' = "portal"
  /\ UNCHANGED <<idOrModel, options, content, pending, response, fetched, toFetch,
                 hubError, portalError, datesIn, settled, value, error>>
  /\ UNCHANGED notContent

\* getContentFromHub resolves: the catch is skipped, the then-callback enriches
HubResolve ==
  /\ pc = "hub"
  /\ \E c \in Contents :
       /\ response' = c
       /\ enrichContent(c, Append(events, Answer("ok", "hub")))
  /\ UNCHANGED <<idOrModel, options, hubError, portalError, datesIn, settled, value,
                 error>>
  /\ UNCHANGED notContent

\* a catch-callback that never falls back to the portal API
HubReject_NoFallback ==
  /\ pc = "hub"
  /\ \E e \in HubErrors :
       /\ hubError' = e
       /\ events' = Append(events, Answer("error", "hub"))
       /\ pc' = "done"
       /\ settled' = "rejected"
       /\ error' = e
  /\ UNCHANGED <<idOrModel, options, content, pending, response, fetched, toFetch,
                 portalError, datesIn, value>>
  /\ UNCHANGED notContent

\* a catch-callback that falls back to the portal API for a slug too
HubReject_AlwaysFallback ==
  /\ pc = "hub"
  /\ \E e \in HubErrors :
       /\ hubError' = e
       /\ events' = events \o <<Answer("error", "hub"),
                                 Request("portal", idOrModel, options)>>
       /\ pc' = "portal"
  /\ UNCHANGED <<idOrModel, options, content, pending, response, fetched, toFetch,
                 portalError, datesIn, value, settled, error>>
  /\ UNCHANGED notContent

\* getContentFromHub rejects: the catch-callback of getContentById
HubReject ==
  /\ pc = "hub"
  /\ \E e \in HubErrors :
       /\ hubError' = e
       /\ IF ~isSlug(idOrModel.s)
          THEN /\ events' = events \o <<Answer("error", "hub"),
                                         Request("portal", idOrModel, options)>>
               /\ pc' = "portal"
               /\ UNCHANGED <<settled, error>>
          ELSE /\ events' = Append(events, Answer("error", "hub"))
               /\ pc' = "done"
               /\ settled' = "rejected"
               /\ error' = e
  /\ UNCHANGED <<idOrModel, options, content, pending, response, fetched, toFetch,
                 portalError, datesIn, value>>
  /\ UNCHANGED notContent

\* getContentFromPortal resolves: the then-callback enriches (a model's data
\* is spread over the fetched content first)
PortalResolve ==
  /\ pc = "portal"
  /\ \E c \in Contents :
       /\ response' = c
       /\ enrichContent(
            IF idOrModel.t = "model" THEN [c EXCEPT !["data"] = idOrModel.data] ELSE c,
            Append(events, Answer("ok", "portal")))
  /\ UNCHANGED <<idOrModel, options, hubError, portalError, datesIn, settled, value,
                 error>>
  /\ UNCHANGED notContent

\* a portal failure that is retried
PortalReject_Retry ==
  /\ pc = "portal"
  /\ \E e \in PortalErrors :
       /\ portalError' = e
       /\ events' = events \o <<Answer("error", "portal"),
                                 events[Len(events)]>>
       /\ pc' = "portal"
  /\ UNCHANGED <<idOrModel, options, content, pending, response, fetched, toFetch,
                 hubError, datesIn, value, settled, error>>
  /\ UNCHANGED notContent

\* getContentFromPortal rejects: nothing catches it
PortalReject ==
  /\ pc = "portal"
  /\ \E e \in PortalErrors :
       /\ portalError' = e
       /\ error' = e
       /\ settled' = "rejected"
       /\ events' = Append(events, Answer("error", "portal"))
       /\ pc' = "done"
  /\ UNCHANGED <<idOrModel, options, content, pending, response, fetched, toFetch,
                 hubError, datesIn, value>>
  /\ UNCHANGED notContent

\* a property fetch resolves: merge it, then fetch the next one or finish
PropertyResolve ==
  /\ pc = "fetchProps"
  /\ \E v \in PropertyValues(Head(pending)) :
       LET c == [content EXCEPT ![Head(pending)] = v]
           ev == Append(events, Answer("ok", Head(pending)))
       IN  /\ content' = c
           /\ pending' = Tail(pending)
           /\ IF Len(pending) = 1
              THEN /\ events' = ev
                   /\ pc' = "enrichDates"
              ELSE /\ events' = Append(ev, propertyRequest(pending[2], c, options))
                   /\ pc' = "fetchProps"
  /\ UNCHANGED <<idOrModel, options, response, fetched, toFetch, hubError,
                 portalError, datesIn, settled, value, error>>
  /\ UNCHANGED notContent

\* a property fetch rejects: so does the promise of _fetchContentProperties
PropertyReject ==
  /\ pc = "fetchProps"
  /\ \E e \in PropertyErrors :
       /\ error' = e
       /\ settled' = "rejected"
       /\ events' = Append(events, Answer("error", Head(pending)))
       /\ pc' = "done"
  /\ UNCHANGED <<idOrModel, options, content, pending, response, fetched, toFetch,
                 hubError, portalError, datesIn, value>>
  /\ UNCHANGED notContent

\* fetchContentPropertiesPromise.then(_enrichDates): the call resolves
EnrichDates ==
  /\ pc = "enrichDates"
  /\ datesIn' = content
  /\ value' = _enrichDates(content)
  /\ settled' = "resolved"
  /\ events' = Append(events, Answer("apply", "_enrichDates"))
  /\ pc' = "done"
  /\ UNCHANGED <<idOrModel, options, content, pending, response, fetched, toFetch,
                 hubError, portalError, error>>
  /\ UNCHANGED notContent

NextContent ==
  \/ GetContent
  \/ HubResolve
  \/ HubReject
  \/ PortalResolve
  \/ PortalReject
  \/ PropertyResolve
  \/ PropertyReject
  \/ EnrichDates

SpecContent == InitContent /\ [][NextContent]_vars

InitFilters ==
  /\ IsFilterInput(filters)
  /\ requestOptions = Obj("request options")
  /\ fpc = "start"
  /\ processedFilters = NoParams
  /\ searchRequests = <<>>
  /\ searchResults = <<>>
  /\ clock = ClockStart
  /\ times = <<>>
  /\ fsettled = "pending"
  /\ ferror = NoError
  /\ IdleContent
  /\ IdleSearch
  /\ IdleDates

\* lines 283-396, from the notGroup branch to the return: pf is
\* processedFilters as the branch left it
finishProcessFilters(pf) ==
  LET dated == processEndDates(processStartDates(processStatus(pf, filters), filters),
                               filters)
      occurrence == getPredicateValuesByKey(filters, "occurrence")
  IN  IF \E k \in DOMAIN dated : dated[k].t = "thrown"
      THEN \* toISOString threw: the async function rejects
           /\ fsettled' = "rejected"
           /\ ferror' = RangeError
           /\ processedFilters' = pf
           /\ UNCHANGED <<clock, times>>
      ELSE \E ticks \in [1..clockReads(occurrence) -> {0, 1}] :
             LET read == [i \in 1..clockReads(occurrence) |->
                            clock + Cardinality({j \in 1..i : ticks[j] = 1})]
             IN  /\ processedFilters' = processOccurrence(dated, occurrence, read)
                 /\ times' = read
                 /\ clock' = IF read = <<>> THEN clock ELSE read[Len(read)]
                 /\ fsettled' = "resolved"
                 /\ UNCHANGED ferror

\* processFilters(filters, requestOptions), up to the await or to the return
ProcessFilters ==
  /\ fpc = "start"
  /\ LET pf == processGroups(processPlainFilters(filters), filters)
         notGroupIds == getPredicateValuesByKey(filters, "notGroup")
     IN  IF Len(notGroupIds) > 0
         THEN /\ searchRequests' =
                   Append(searchRequests, searchGroupsRequest(notGroupIds, requestOptions))
              /\ processedFilters' = pf
              /\ fpc' = "searchGroups"
              /\ UNCHANGED <<clock, times, fsettled, ferror>>
         ELSE /\ finishProcessFilters(processNotReadEditGroups(pf, filters))
              /\ fpc' = "done"
              /\ UNCHANGED searchRequests
  /\ UNCHANGED <<filters, requestOptions, searchResults>>
  /\ UNCHANGED notFilters

\* searchGroups resolves: the function runs on to its return
SearchGroupsResolve ==
  /\ fpc = "searchGroups"
  /\ \E results \in SearchResults(searchRequests[Len(searchRequests)].num) :
       /\ searchResults' = results
       /\ finishProcessFilters(processNotGroups(processedFilters, results))
  /\ fpc' = "done"
  /\ UNCHANGED <<filters, requestOptions, searchRequests>>
  /\ UNCHANGED notFilters

\* searchGroups rejects: the await throws and the function rejects
SearchGroupsReject ==
  /\ fpc = "searchGroups"
  /\ \E e \in SearchErrors :
       /\ ferror' = e
       /\ fsettled' = "rejected"
  /\ fpc' = "done"
  /\ UNCHANGED <<filters, requestOptions, processedFilters, searchRequests,
                 searchResults, clock, times>>
  /\ UNCHANGED notFilters

NextFilters ==
  \/ ProcessFilters
  \/ SearchGroupsResolve
  \/ SearchGroupsReject

SpecFilters == InitFilters /\ [][NextFilters]_vars

(***************************************************************************)
(* One getFilterQueryParam call.                                           *)
(***************************************************************************)
InitQuery ==
  /\ IsQueryInput(query)
  /\ qpc = "start"
  /\ filterParam = Undef
  /\ searchOptions = Undef
  /\ spc = "idle"
  /\ ogcCalls = <<>>
  /\ ogcRequests = <<>>
  /\ ogcOutcomes = <<>>
  /\ nextReturns = <<>>
  /\ IdleContent
  /\ IdleFilters
  /\ IdleDates

\* lines 158-160
GetFilterQueryParam ==
  /\ qpc = "start"
  /\ qpc' = "done"
  /\ filterParam' = Str(getFilterQueryParam(query))
  /\ UNCHANGED <<query, searchOptions, spc, ogcCalls, ogcRequests, ogcOutcomes,
                 nextReturns>>
  /\ UNCHANGED notSearch

NextQuery == GetFilterQueryParam

SpecQuery == InitQuery /\ [][NextQuery]_vars

(***************************************************************************)
(* _enrichDates calls on the objects of a heap: on the content the heap    *)
(* starts with, and on the contents earlier calls returned.                *)
(***************************************************************************)
InitDates ==
  /\ \E c \in Contents : heap = <<c>>
  /\ enrichCalls = <<>>
  /\ IdleContent
  /\ IdleFilters
  /\ IdleSearch

\* _enrichDates(content), content being any object of the heap
EnrichDatesCall ==
  /\ Len(enrichCalls) < MaxCalls
  /\ \E ref \in 1..Len(heap) :
       LET done == _enrichDatesByRef(heap, ref)
       IN  /\ heap' = done.heap
           /\ enrichCalls' = Append(enrichCalls,
                [arg |-> ref, input |-> heap[ref], inputAfter |-> done.heap[ref],
                 returned |-> done.ref, output |-> done.heap[done.ref]])
  /\ UNCHANGED notDates

NextDates == EnrichDatesCall

SpecDates == InitDates /\ [][NextDates]_vars

(***************************************************************************)
(* One searchOgcItems call and the next() calls on what it and its         *)
(* successors resolve with.  A call runs from its start to the await of    *)
(* fetch in one step, and from the answer of fetch to its end in another.  *)
(***************************************************************************)
InitSearch ==
  /\ query \in SearchQueries
  /\ searchOptions \in SearchOptionsInputs
  /\ spc = "start"
  /\ qpc = "idle"
  /\ filterParam = Undef
  /\ ogcCalls = <<>>
  /\ ogcRequests = <<>>
  /\ ogcOutcomes = <<>>
  /\ nextReturns = <<>>
  /\ IdleContent
  /\ IdleFilters
  /\ IdleDates

\* lines 79-87 and 105-107: searchOgcItems up to the await of _fetch; from is
\* the next() call the search was started by, 0 for the caller's own
searchOgcItems(q, o, from) ==
  LET url == o.api.url \o "/items"
      queryParams == getOgcItemQueryParams(q, o)
  IN  /\ ogcCalls' = Append(ogcCalls, [query |-> q, options |-> o, from |-> from])
      /\ ogcRequests' = Append(ogcRequests, fetchRequest(url, queryParams, o))
      /\ spc' = "fetch"

\* the caller's searchOgcItems(query, options)
SearchOgcItems ==
  /\ spc = "start"
  /\ searchOgcItems(query, searchOptions, 0)
  /\ UNCHANGED <<query, qpc, filterParam, searchOptions, ogcOutcomes, nextReturns>>
  /\ UNCHANGED notSearch

\* lines 109-117 and 89: an ok response is parsed and formatted
FetchOk ==
  /\ spc = "fetch"
  /\ \E ogcResponse \in OgcResponses :
       LET call == ogcCalls[Len(ogcCalls)]
       IN  ogcOutcomes' = Append(ogcOutcomes,
             [kind |-> "resolved", raw |-> ogcResponse,
              value |-> formatOgcSearchResponse(ogcResponse, call.query, call.options)])
  /\ spc' = "settled"
  /\ UNCHANGED <<query, qpc, filterParam, searchOptions, ogcCalls, ogcRequests,
                 nextReturns>>
  /\ UNCHANGED notSearch

\* a FetchNotOk that formats the body of a failed response
FetchNotOk_Formatted ==
  /\ spc = "fetch"
  /\ \E failed \in FailedResponses :
       LET call == ogcCalls[Len(ogcCalls)]
           body == [features |-> <<>>, numberMatched |-> 0, links |-> <<>>]
       IN  ogcOutcomes' = Append(ogcOutcomes,
             [kind |-> "resolved", raw |-> failed,
              value |-> formatOgcSearchResponse(body, call.query, call.options)])
  /\ spc' = "settled"
  /\ UNCHANGED <<query, qpc, filterParam, searchOptions, ogcCalls, ogcRequests,
                 nextReturns>>
  /\ UNCHANGED notSearch

\* lines 109-115: a response that is not ok
FetchNotOk ==
  /\ spc = "fetch"
  /\ \E failed \in FailedResponses :
       ogcOutcomes' = Append(ogcOutcomes,
         [kind |-> "rejected", raw |-> failed,
          error |-> RemoteServerError(failed.statusText,
                                      ogcRequests[Len(ogcRequests)].url,
                                      failed.status)])
  /\ spc' = "settled"
  /\ UNCHANGED <<query, qpc, filterParam, searchOptions, ogcCalls, ogcRequests,
                 nextReturns>>
  /\ UNCHANGED notSearch

\* line 107: _fetch itself rejects
FetchReject ==
  /\ spc = "fetch"
  /\ \E e \in FetchErrors :
       ogcOutcomes' = Append(ogcOutcomes, [kind |-> "rejected", raw |-> Undef, error |-> e])
  /\ spc' = "settled"
  /\ UNCHANGED <<query, qpc, filterParam, searchOptions, ogcCalls, ogcRequests,
                 nextReturns>>
  /\ UNCHANGED notSearch

\* line 230: next() of a response without a next link
NextNull ==
  /\ spc = "settled"
  /\ Len(nextReturns) < MaxRequests
  /\ \E i \in 1..Len(ogcOutcomes) :
       /\ ogcOutcomes[i].kind = "resolved"
       /\ ogcOutcomes[i].value.next = NullCallback
       /\ nextReturns' = Append(nextReturns, [of |-> i, returned |-> Null])
  /\ UNCHANGED <<query, qpc, filterParam, searchOptions, spc, ogcCalls, ogcRequests,
                 ogcOutcomes>>
  /\ UNCHANGED notSearch

\* a NextSearch that keeps the start of the options it closed over
NextSearch_KeepStart ==
  /\ spc = "settled"
  /\ Len(ogcCalls) < MaxRequests
  /\ Len(nextReturns) < MaxRequests
  /\ \E i \in 1..Len(ogcOutcomes) :
       /\ ogcOutcomes[i].kind = "resolved"
       /\ ogcOutcomes[i].value.next # NullCallback
       /\ LET callback == ogcOutcomes[i].value.next
          IN  searchOgcItems(callback.originalQuery, callback.originalOptions,
                             Len(nextReturns) + 1)
       /\ nextReturns' = Append(nextReturns, [of |-> i, returned |-> Promise])
  /\ UNCHANGED <<query, qpc, filterParam, searchOptions, ogcOutcomes>>
  /\ UNCHANGED notSearch

\* lines 232-237: next() of a response with a next link
NextSearch ==
  /\ spc = "settled"
  /\ Len(ogcCalls) < MaxRequests
  /\ Len(nextReturns) < MaxRequests
  /\ \E i \in 1..Len(ogcOutcomes) :
       /\ ogcOutcomes[i].kind = "resolved"
       /\ ogcOutcomes[i].value.next # NullCallback
       /\ LET callback == ogcOutcomes[i].value.next
              start == ToNumber(searchParamsGet(callback.nextLink.href))
              nextOptions == [callback.originalOptions EXCEPT !.start = start]
          IN  searchOgcItems(callback.originalQuery, nextOptions, Len(nextReturns) + 1)
       /\ nextReturns' = Append(nextReturns, [of |-> i, returned |-> Promise])
  /\ UNCHANGED <<query, qpc, filterParam, searchOptions, ogcOutcomes>>
  /\ UNCHANGED notSearch

NextSearchStep ==
  \/ SearchOgcItems
  \/ FetchOk
  \/ FetchNotOk
  \/ FetchReject
  \/ NextNull
  \/ NextSearch

SpecSearch == InitSearch /\ [][NextSearchStep]_vars


(***************************************************************************)
(* Properties of getContent, checked under SpecContent.                    *)
(***************************************************************************)
Range(seq) == {seq[i] : i \in 1..Len(seq)}

\* where the history holds an event of this kind from this API
EventsOf(kind, api) ==
  {i \in 1..Len(events) : events[i].kind = kind /\ events[i].api = api}

PropertyRequests == EventsOf("request", "getItemData") \cup EventsOf("request", "getUser")
PropertyAnswers(kind) == EventsOf(kind, "data") \cup EventsOf(kind, "orgId")
ContentAnswers(kind) == EventsOf(kind, "hub") \cup EventsOf(kind, "portal")

\* the call is getContent(identifier, options) with options.isPortal not truthy
HubFirstCall == idOrModel.t = "string" /\ ~isPortalOption(options)

\* v spells the instant d
InstantOf(v, d) == v \in {Num(d), Str(IsoString(d)), Str(OffsetString(d))}

\* C1: getContent(identifier, options), isPortal not truthy: when the Hub API
\* fetch rejects and the identifier is not a slug, the portal API is requested
\* exactly once, with the same identifier and options; the call then rejects
\* with the portal's error if that request fails, and if it resolves it
\* resolves with the portal's content, enriched.
C1_FallbackToPortal ==
  (HubFirstCall /\ EventsOf("error", "hub") # {} /\ ~isSlug(idOrModel.s)) =>
    /\ Cardinality(EventsOf("request", "portal")) = 1
    /\ \A i \in EventsOf("request", "portal") :
         /\ events[i].arg = idOrModel
         /\ events[i].options = options
         /\ i > CHOOSE j \in EventsOf("error", "hub") : TRUE
    /\ EventsOf("ok", "hub") = {}
    /\ EventsOf("error", "portal") # {} =>
         pc = "done" /\ settled = "rejected" /\ error = portalError
                     /\ portalError \in PortalErrors
    /\ settled = "resolved" =>
         /\ EventsOf("ok", "portal") # {}
         /\ \A f \in Fields \ Range(toFetch) : datesIn[f] = response[f]
         /\ value = _enrichDates(datesIn)
    /\ (pc = "done" /\ EventsOf("ok", "portal") # {} /\ PropertyAnswers("error") = {}) =>
         settled = "resolved"

C1_Witness ==
  /\ HubFirstCall
  /\ EventsOf("error", "hub") # {}
  /\ ~isSlug(idOrModel.s)
  /\ settled = "resolved"
  /\ idOrModel.s = "7a153563b0c74f7eb2b3eae8a66f2fbb_0"

\* C2: getContent(identifier, options), isPortal not truthy: when the Hub API
\* fetch rejects with e and the identifier is a slug, the call rejects with e,
\* the portal API is never requested and no enrichment step runs.
C2_SlugRejects ==
  (HubFirstCall /\ EventsOf("error", "hub") # {} /\ isSlug(idOrModel.s)) =>
    /\ pc = "done"
    /\ settled = "rejected"
    /\ hubError \in HubErrors
    /\ error = hubError
    /\ EventsOf("request", "portal") = {}
    /\ PropertyRequests = {}
    /\ EventsOf("apply", "_enrichDates") = {}

C2_Witness ==
  /\ HubFirstCall
  /\ EventsOf("error", "hub") # {}
  /\ idOrModel.s = "dc::munis-2020"
  /\ error = "hub: 404 not found"

\* C3: in one getContent call the Hub API is requested at most once and the
\* portal API at most once; a portal request follows a Hub request only when
\* that Hub request failed; a failed portal request is the last thing that
\* happens: the call is rejected and nothing more is requested.
C3_SingleAttempt ==
  /\ Cardinality(EventsOf("request", "hub")) <= 1
  /\ Cardinality(EventsOf("request", "portal")) <= 1
  /\ \A i \in EventsOf("request", "hub"), j \in EventsOf("request", "portal") :
       i < j => \E k \in EventsOf("error", "hub") : i < k /\ k < j
  /\ \A i \in EventsOf("error", "portal") :
       i = Len(events) /\ pc = "done" /\ settled = "rejected"

C3_Witness ==
  /\ EventsOf("error", "hub") # {}
  /\ EventsOf("error", "portal") # {}
  /\ pc = "done"

\* C4: enrichment is sequential: property fetches are requested only after
\* the content fetch resolved; a call that resolves applied _enrichDates
\* exactly once, last, after every requested property was answered, and
\* resolves with its output; a call whose content fetch (with its fallback)
\* or whose property fetch rejects never applies _enrichDates and rejects.
C4_SequentialEnrichment ==
  /\ \A j \in PropertyRequests \cup PropertyAnswers("ok") \cup PropertyAnswers("error") :
       \E i \in ContentAnswers("ok") : i < j
  /\ Cardinality(ContentAnswers("ok")) <= 1
  /\ Cardinality(EventsOf("apply", "_enrichDates")) <= 1
  /\ \A a \in EventsOf("apply", "_enrichDates") :
       /\ a = Len(events)
       /\ settled = "resolved"
       /\ Cardinality(PropertyAnswers("ok")) = Len(toFetch)
       /\ Cardinality(PropertyRequests) = Len(toFetch)
       /\ PropertyAnswers("error") = {}
       /\ ContentAnswers("ok") # {}
  /\ settled = "resolved" =>
       /\ EventsOf("apply", "_enrichDates") # {}
       /\ value = _enrichDates(datesIn)
       /\ datesIn = content
       /\ \A f \in Fields \ Range(toFetch) : datesIn[f] = fetched[f]
  /\ (pc = "done" /\ (ContentAnswers("ok") = {} \/ PropertyAnswers("error") # {})) =>
       settled = "rejected" /\ EventsOf("apply", "_enrichDates") = {}

C4_Witness ==
  /\ settled = "resolved"
  /\ toFetch = <<"data", "orgId">>
  /\ value["orgId"] = Str("org-of-owner")

\* C5: enrichContent asks for the item data exactly when content.data is
\* falsy and hubType is "template" or "solution", and for the owner's org id
\* exactly when content.orgId is falsy, type is "Web Map" and typeKeywords
\* holds "Enterprise Sites" or "ArcGIS Hub"; when neither holds nothing is
\* requested and _enrichDates gets the fetched content unchanged.
C5_PropertiesToFetch ==
  ContentAnswers("ok") # {} =>
    LET keywords == IF fetched["typeKeywords"].t = "array"
                    THEN Range(fetched["typeKeywords"].a) ELSE {}
        wantsData ==
          /\ fetched["data"] = Undef
          /\ fetched["hubType"] \in {Str("template"), Str("solution")}
        wantsOrgId ==
          /\ fetched["orgId"] \in {Undef, Str("")}
          /\ fetched["type"] = Str("Web Map")
          /\ keywords \cap {Str("Enterprise Sites"), Str("ArcGIS Hub")} # {}
    IN  /\ ("data" \in Range(toFetch)) <=> wantsData
        /\ ("orgId" \in Range(toFetch)) <=> wantsOrgId
        /\ Cardinality(EventsOf("request", "getItemData")) <= 1
        /\ Cardinality(EventsOf("request", "getUser")) <= 1
        /\ \A i \in EventsOf("request", "getItemData") :
             wantsData /\ events[i].arg = fetched["id"]
        /\ \A i \in EventsOf("request", "getUser") :
             wantsOrgId /\ events[i].arg = fetched["owner"]
        /\ wantsData => EventsOf("request", "getItemData") # {}
        /\ (wantsOrgId /\ settled = "resolved") => EventsOf("request", "getUser") # {}
        /\ (~wantsData /\ ~wantsOrgId) =>
             /\ PropertyRequests = {}
             /\ pc # "fetchProps"
             /\ settled = "resolved" => datesIn = fetched

C5_Witness ==
  /\ settled = "resolved"
  /\ toFetch = <<"orgId">>
  /\ fetched["hubType"] = Str("solution")
  /\ fetched["data"] # Undef

\* C6: _enrichDates takes updatedDate / updatedDateSource from the metadata
\* reviseDate when it has one (also when lastEditDate is there), else from
\* layer.editingInfo.lastEditDate when it has one, else leaves them; and
\* publishedDate / publishedDateSource from the metadata pubDate, else from
\* the metadata createDate, else leaves them.  (To have a value is to have
\* a truthy one: an empty string or a 0 is no date.)
C6_DatePrecedence ==
  settled = "resolved" =>
    LET reviseDate == datesIn["metadata.metadata.dataIdInfo.idCitation.date.reviseDate"]
        lastEditDate == datesIn["layer.editingInfo.lastEditDate"]
        pubDate == datesIn["metadata.metadata.dataIdInfo.idCitation.date.pubDate"]
        createDate == datesIn["metadata.metadata.dataIdInfo.idCitation.date.createDate"]
        has(v) == v \notin {Undef, Str(""), Num(0)}
        from(v, date, source, path) ==
          /\ \E d \in 0..(100 + MaxInstant) : InstantOf(v, d) /\ date = DateV(d)
          /\ source = Str(path)
    IN  /\ IF has(reviseDate)
           THEN from(reviseDate, value["updatedDate"], value["updatedDateSource"],
                     "metadata.metadata.dataIdInfo.idCitation.date.reviseDate")
           ELSE IF has(lastEditDate)
           THEN from(lastEditDate, value["updatedDate"], value["updatedDateSource"],
                     "layer.editingInfo.lastEditDate")
           ELSE /\ value["updatedDate"] = datesIn["updatedDate"]
                /\ value["updatedDateSource"] = datesIn["updatedDateSource"]
        /\ IF has(pubDate)
           THEN from(pubDate, value["publishedDate"], value["publishedDateSource"],
                     "metadata.metadata.dataIdInfo.idCitation.date.pubDate")
           ELSE IF has(createDate)
           THEN from(createDate, value["publishedDate"], value["publishedDateSource"],
                     "metadata.metadata.dataIdInfo.idCitation.date.createDate")
           ELSE /\ value["publishedDate"] = datesIn["publishedDate"]
                /\ value["publishedDateSource"] = datesIn["publishedDateSource"]

C6_Witness ==
  /\ settled = "resolved"
  /\ Truthy(datesIn[ReviseDatePath])
  /\ Truthy(datesIn[LastEditDatePath])
  /\ ~Truthy(datesIn[PubDatePath])
  /\ Truthy(datesIn[CreateDatePath])
  /\ datesIn["updatedDate"] = DateV(50)


\* C14: with a truthy options.isPortal, or with a model as first argument,
\* getContent never requests the Hub API: with isPortal it requests the
\* portal API with the itemId parsed from the identifier, with a model it
\* requests it with model.item, and the model's data is merged onto the
\* content fetched before that is enriched.
C14_PortalOnly ==
  LET portalOnly == (options # Undef /\ options.isPortal = Bool(TRUE))
                      \/ idOrModel.t = "model"
      first == events[1]
  IN  portalOnly =>
        /\ \A i \in 1..Len(events) : events[i].api # "hub"
        /\ pc # "start" =>
             /\ first.kind = "request" /\ first.api = "portal" /\ first.options = options
             /\ IF idOrModel.t = "model"
                THEN first.arg = idOrModel.item
                ELSE /\ first.arg.t = "string"
                     /\ \/ idOrModel.s = first.arg.s
                        \/ \E l \in LayerIds : idOrModel.s = first.arg.s \o "_" \o l
                     /\ first.arg.s \in ItemIds \cup Slugs
        /\ (idOrModel.t = "model" /\ ContentAnswers("ok") # {}) =>
             /\ fetched["data"] = idOrModel.data
             /\ \A f \in Fields \ {"data"} : fetched[f] = response[f]

C14_Witness ==
  /\ options = Options(Bool(TRUE), "token-1")
  /\ idOrModel = Str("7a153563b0c74f7eb2b3eae8a66f2fbb_0")
  /\ settled = "resolved"
  /\ events[1] = Request("portal", Str("7a153563b0c74f7eb2b3eae8a66f2fbb"), options)

(***************************************************************************)
(* Properties of _enrichDates, checked under SpecDates.                    *)
(***************************************************************************)
DateFields ==
  {"updateFrequency", "updatedDate", "updatedDateSource", "publishedDate",
   "publishedDateSource"}

\* C15: _enrichDates never modifies its argument: the object passed is the
\* same after the call, the changes (updateFrequency, updatedDate,
\* updatedDateSource, publishedDate, publishedDateSource) are made on a clone,
\* which is returned; no state goes from one call to the next, so that the
\* same input gives the same output.
C15_EnrichDatesPure ==
  /\ \A i \in 1..Len(enrichCalls) :
       LET call == enrichCalls[i]
       IN  /\ call.inputAfter = call.input
           /\ call.returned # call.arg
           /\ \A j \in 1..(i - 1) : call.returned \notin {enrichCalls[j].arg,
                                                         enrichCalls[j].returned}
           /\ heap[call.arg] = call.input
           /\ heap[call.returned] = call.output
           /\ \A f \in Fields \ DateFields : call.output[f] = call.input[f]
  /\ \A i, j \in 1..Len(enrichCalls) :
       enrichCalls[i].input = enrichCalls[j].input =>
         enrichCalls[i].output = enrichCalls[j].output

C15_Witness ==
  /\ Len(enrichCalls) = 2
  /\ enrichCalls[1].arg = 1 /\ enrichCalls[2].arg = 1
  /\ enrichCalls[1].output # enrichCalls[1].input
  /\ enrichCalls[2].output = enrichCalls[1].output
  /\ enrichCalls[2].returned # enrichCalls[1].returned
  /\ \A f \in {"updatedDate", "updatedDateSource", "publishedDate", "publishedDateSource"} :
       enrichCalls[1].output[f] # enrichCalls[1].input[f]

(***************************************************************************)
(* Properties of processFilters, checked under SpecFilters.                *)
(***************************************************************************)
\* the values the predicates of the input hold under the key, in order
ValuesOf(key) ==
  LET perFilter(f) == Flatten([j \in 1..Len(f.predicates) |->
                        SelectSeq(f.predicates[j], LAMBDA e : e.key = key)])
      entries == Flatten([i \in 1..Len(filters) |-> perFilter(filters[i])])
  IN  [i \in 1..Len(entries) |-> entries[i].value]

HasKey(key) == ValuesOf(key) # <<>>

\* a string, or an array holding a string
NonEmpty(v) ==
  \/ v.t = "string" /\ v.s # ""
  \/ v.t = "array" /\ \E i \in 1..Len(v.a) : v.a[i].s # ""

HasNonEmpty(key) == \E i \in 1..Len(ValuesOf(key)) : NonEmpty(ValuesOf(key)[i])

Resolved == fsettled = "resolved"
Has(param) == param \in DOMAIN processedFilters

\* the parameter is set exactly when the key has a non-empty value, from its strings
SetFromStrings(param, key) ==
  /\ Has(param) <=> HasNonEmpty(key)
  /\ Has(param) => processedFilters[param] = getOptionalPredicateStringsByKey(filters, key)

\* C7: a non-empty "group" predicate sets sharedToGroups and keeps readGroups
\* and editGroups unset, whatever readGroupId / editGroupId predicates there
\* are; with no "group" predicate sharedToGroups is unset and readGroups /
\* editGroups are set exactly when readGroupId / editGroupId are non-empty.
C7_GroupPriority ==
  Resolved =>
    /\ HasNonEmpty("group") =>
         /\ Has("sharedToGroups")
         /\ processedFilters["sharedToGroups"] =
              getOptionalPredicateStringsByKey(filters, "group")
         /\ ~Has("readGroups")
         /\ ~Has("editGroups")
    /\ ~HasKey("group") =>
         /\ ~Has("sharedToGroups")
         /\ SetFromStrings("readGroups", "readGroupId")
         /\ SetFromStrings("editGroups", "editGroupId")

C7_Witness ==
  /\ Resolved
  /\ ValuesOf("group") = <<Arr(<<Str("g1"), Str("g2")>>)>>
  /\ ValuesOf("readGroupId") = <<Str("g3")>>
  /\ processedFilters["sharedToGroups"] = Str("g1,g2")

\* the ids of the groups searchGroups returned that are / are not update groups
ReturnedIds(update) ==
  LET kept == SelectSeq(searchResults,
                        LAMBDA g : ("updateitemcontrol" \in Range(g.capabilities)) = update)
  IN  [i \in 1..Len(kept) |-> kept[i].id]

\* C8: with a "notGroup" value searchGroups is called once, for those ids;
\* the ids it returns go to withoutEditGroups (update groups) or to
\* withoutReadGroups (the others), a field being set only when it gets an id,
\* and notReadGroupId / notEditGroupId are ignored; with no "notGroup" value
\* searchGroups is never called and the two fields come from notReadGroupId
\* / notEditGroupId alone.
C8_NotGroupPriority ==
  /\ HasKey("notGroup") =>
       /\ fpc # "start" =>
            /\ Len(searchRequests) = 1
            /\ searchRequests[1].num = Len(ValuesOf("notGroup"))
            /\ searchRequests[1].q =
                 "id:(" \o Join([i \in 1..Len(ValuesOf("notGroup")) |->
                                   ToJsString(ValuesOf("notGroup")[i])], " OR ") \o ")"
       /\ Resolved =>
            /\ Has("withoutEditGroups") <=> ReturnedIds(TRUE) # <<>>
            /\ Has("withoutEditGroups") =>
                 processedFilters["withoutEditGroups"] = Str(Join(ReturnedIds(TRUE), ","))
            /\ Has("withoutReadGroups") <=> ReturnedIds(FALSE) # <<>>
            /\ Has("withoutReadGroups") =>
                 processedFilters["withoutReadGroups"] = Str(Join(ReturnedIds(FALSE), ","))
            /\ \A i \in 1..Len(searchResults) :
                 (searchResults[i].id \in Range(ReturnedIds(TRUE)))
                   # (searchResults[i].id \in Range(ReturnedIds(FALSE)))
  /\ ~HasKey("notGroup") =>
       /\ searchRequests = <<>>
       /\ fpc # "searchGroups"
       /\ Resolved =>
            /\ SetFromStrings("withoutReadGroups", "notReadGroupId")
            /\ SetFromStrings("withoutEditGroups", "notEditGroupId")

C8_Witness ==
  /\ Resolved
  /\ ValuesOf("notGroup") = <<Str("g1"), Str("g2")>>
  /\ searchRequests[1].q = "id:(g1 OR g2)"
  /\ Has("withoutEditGroups") /\ Has("withoutReadGroups")
  /\ processedFilters["withoutEditGroups"] = Str("g2")
  /\ processedFilters["withoutReadGroups"] = Str("g1")

\* the parameter holds the ISO string of the instant v spells
IsoOf(param, v) ==
  /\ Has(param)
  /\ \E d \in 0..MaxInstant :
       InstantOf(v, d) /\ processedFilters[param] = Str(IsoString(d))

\* the rule of C9 for one range key and its before / after keys
RangePriority(rangeKey, beforeKey, afterKey, beforeParam, afterParam) ==
  LET given(v) == v \notin {Undef, Str(""), Num(0)}
      range == ValuesOf(rangeKey)[1]
  IN  IF HasKey(rangeKey)
      THEN /\ IF given(range.to) THEN IsoOf(beforeParam, range.to) ELSE ~Has(beforeParam)
           /\ IF given(range.from) THEN IsoOf(afterParam, range.from) ELSE ~Has(afterParam)
      ELSE /\ IF HasKey(beforeKey)
              THEN IsoOf(beforeParam, ValuesOf(beforeKey)[1]) ELSE ~Has(beforeParam)
           /\ IF HasKey(afterKey)
              THEN IsoOf(afterParam, ValuesOf(afterKey)[1]) ELSE ~Has(afterParam)

\* C9: before any occurrence adjustment, a "startDateRange" predicate sets
\* startDateTimeBefore only from its to and startDateTimeAfter only from its
\* from (a missing to or from leaves the field unset, also when there is a
\* startDateBefore / startDateAfter predicate); with no range the fields come
\* from the first startDateBefore / startDateAfter value.  The same for
\* endDateRange, endDateBefore / endDateAfter and the two end fields.
C9_DateRangePriority ==
  (Resolved /\ ~HasKey("occurrence")) =>
    /\ RangePriority("startDateRange", "startDateBefore", "startDateAfter",
                     "startDateTimeBefore", "startDateTimeAfter")
    /\ RangePriority("endDateRange", "endDateBefore", "endDateAfter",
                     "endDateTimeBefore", "endDateTimeAfter")

C9_Witness ==
  /\ Resolved
  /\ ValuesOf("startDateRange") = <<DateRange(Num(6), Undef)>>
  /\ ValuesOf("startDateBefore") = <<Num(11)>>
  /\ processedFilters["startDateTimeAfter"] = Str("1970-01-01T00:00:00.006Z")
  /\ ~Has("startDateTimeBefore")

\* the predicate keys a parameter of the result is computed from
SourceKeys(param) ==
  CASE param = "access" -> {"access"}
    [] param = "canEdit" -> {"canEdit"}
    [] param = "entityIds" -> {"entityId"}
    [] param = "entityTypes" -> {"entityType"}
    [] param = "eventIds" -> {"id"}
    [] param = "title" -> {"term"}
    [] param = "orgId" -> {"orgId"}
    [] param = "categories" -> {"categories"}
    [] param = "tags" -> {"tags"}
    [] param = "sharedToGroups" -> {"group"}
    [] param = "readGroups" -> {"readGroupId"}
    [] param = "editGroups" -> {"editGroupId"}
    [] param = "withoutReadGroups" -> {"notGroup", "notReadGroupId"}
    [] param = "withoutEditGroups" -> {"notGroup", "notEditGroupId"}
    [] param = "attendanceTypes" -> {"attendanceType"}
    [] param = "createdByIds" -> {"owner"}
    [] param = "startDateTimeBefore" -> {"startDateRange", "startDateBefore", "occurrence"}
    [] param = "startDateTimeAfter" -> {"startDateRange", "startDateAfter", "occurrence"}
    [] param = "endDateTimeBefore" -> {"endDateRange", "endDateBefore", "occurrence"}
    [] param = "endDateTimeAfter" -> {"endDateRange", "endDateAfter", "occurrence"}
    [] OTHER -> {}

\* C10: the result always has a status: the value of the "status" predicate
\* when it yields a non-empty one, else "planned,canceled"; no other field is
\* set when its source predicate is absent, so that with no predicate at all
\* the result holds status alone.
C10_StatusDefault ==
  Resolved =>
    /\ Has("status")
    /\ processedFilters["status"] =
         IF HasNonEmpty("status")
         THEN getOptionalPredicateStringsByKey(filters, "status")
         ELSE Str("planned,canceled")
    /\ \A param \in DOMAIN processedFilters \ {"status"} :
         \E key \in SourceKeys(param) : HasKey(key)
    /\ (\A i \in 1..Len(filters) : \A j \in 1..Len(filters[i].predicates) :
          filters[i].predicates[j] = <<>>) =>
         DOMAIN processedFilters = {"status"}

C10_Witness ==
  /\ Resolved
  /\ ValuesOf("status") = <<Arr(<<>>)>>
  /\ ValuesOf("owner") = <<Str("jdoe")>>
  /\ processedFilters["status"] = Str("planned,canceled")
  /\ DOMAIN processedFilters = {"status", "createdByIds"}


\* what the date predicates alone give a date field: side is the member of
\* the range the field comes from, singleKey its before / after predicate
FromDatePredicates(param, rangeKey, side, singleKey) ==
  IF HasKey(rangeKey)
  THEN IF ValuesOf(rangeKey)[1][side] \in {Undef, Str(""), Num(0)}
       THEN ~Has(param)
       ELSE IsoOf(param, ValuesOf(rangeKey)[1][side])
  ELSE IF HasKey(singleKey) THEN IsoOf(param, ValuesOf(singleKey)[1]) ELSE ~Has(param)

\* the field holds an instant new Date() gave during the call
IsCurrentTime(param) ==
  /\ Has(param)
  /\ \E i \in 1..Len(times) :
       /\ ClockStart <= times[i] /\ times[i] <= clock
       /\ processedFilters[param] = Str(IsoString(times[i]))

Occurs(o) == \E i \in 1..Len(ValuesOf("occurrence")) : ValuesOf("occurrence")[i] = Str(o)

\* C13: the occurrence predicate is applied after the date predicates and
\* overrides them: with "upcoming" startDateTimeAfter is the current time,
\* with "past" endDateTimeBefore is, with "inProgress" startDateTimeBefore
\* and endDateTimeAfter are, whatever the range / before / after predicates;
\* a date field no occurrence value names keeps what the date predicates give.
C13_OccurrenceOverrides ==
  Resolved =>
    /\ IF Occurs("upcoming") THEN IsCurrentTime("startDateTimeAfter")
       ELSE FromDatePredicates("startDateTimeAfter", "startDateRange", "from",
                               "startDateAfter")
    /\ IF Occurs("past") THEN IsCurrentTime("endDateTimeBefore")
       ELSE FromDatePredicates("endDateTimeBefore", "endDateRange", "to", "endDateBefore")
    /\ IF Occurs("inProgress") THEN IsCurrentTime("startDateTimeBefore")
       ELSE FromDatePredicates("startDateTimeBefore", "startDateRange", "to",
                               "startDateBefore")
    /\ IF Occurs("inProgress") THEN IsCurrentTime("endDateTimeAfter")
       ELSE FromDatePredicates("endDateTimeAfter", "endDateRange", "from", "endDateAfter")

C13_Witness ==
  /\ Resolved
  /\ ValuesOf("occurrence") = <<Str("upcoming")>>
  /\ ValuesOf("startDateRange") = <<DateRange(Num(6), Num(1))>>
  /\ times = <<ClockStart>>
  /\ DOMAIN processedFilters = {"status", "startDateTimeBefore", "startDateTimeAfter"}
  /\ processedFilters["startDateTimeAfter"] = Str("1970-01-01T00:00:00.031Z")
  /\ processedFilters["startDateTimeBefore"] = Str("1970-01-01T00:00:00.001Z")

(***************************************************************************)
(* Properties of getFilterQueryParam, checked under SpecQuery.             *)
(***************************************************************************)
RECURSIVE Joined(_, _)
\* the strings, in order, with sep between two neighbours
Joined(strs, sep) ==
  IF Len(strs) = 0 THEN ""
  ELSE IF Len(strs) = 1 THEN strs[1]
  ELSE Joined(SubSeq(strs, 1, Len(strs) - 1), sep) \o sep \o strs[Len(strs)]

Falsy == {Undef, Str(""), Num(0), Bool(FALSE)}
ListOf(arr) == Joined([i \in 1..Len(arr.a) |-> arr.a[i].s], ", ")

\* what C11 says a field of a predicate gives
ExpectedField(field, v) ==
  CASE v.t = "string" -> field \o "=" \o v.s
    [] v.t = "array" -> field \o " IN (" \o ListOf(v) \o ")"
    [] v.t = "match" ->
         Joined((IF v.any = Undef THEN <<>> ELSE <<field \o " IN (" \o ListOf(v.any) \o ")">>)
                  \o (IF v.all = Undef THEN <<>>
                      ELSE [i \in 1..Len(v.all.a) |-> field \o "=" \o v.all.a[i].s])
                  \o (IF v.not = Undef THEN <<>>
                      ELSE <<field \o " NOT IN (" \o ListOf(v.not) \o ")">>),
                " AND ")

ExpectedPredicate(predicate) ==
  LET kept == SelectSeq(predicate, LAMBDA e : e.value \notin Falsy)
  IN  "(" \o Joined([i \in 1..Len(kept) |-> ExpectedField(kept[i].key, kept[i].value)],
                    " AND ") \o ")"

ExpectedBlock(filter) ==
  LET operation == IF filter.operation = Undef THEN "OR" ELSE filter.operation.s
  IN  "(" \o Joined([i \in 1..Len(filter.predicates) |->
                       ExpectedPredicate(filter.predicates[i])],
                    " " \o operation \o " ") \o ")"

\* every value of the query is one C11 speaks of
NamedValues ==
  \A i \in 1..Len(query.filters) : \A j \in 1..Len(query.filters[i].predicates) :
    \A k \in 1..Len(query.filters[i].predicates[j]) :
      LET v == query.filters[i].predicates[j][k].value
      IN  v \in Falsy \/ v.t \in {"string", "array", "match"}

\* C11: getFilterQueryParam joins the filters, in order, with " AND "; in a
\* filter the predicates are joined, in order, with the filter's operation,
\* "OR" when it is unset; every filter and every predicate is in parentheses
\* of its own; in a predicate the entries with falsy values are dropped and
\* the others are joined with " AND ": field=value for a string, field IN
\* (v1, v2) for an array, and for an object its any / all / not parts as
\* field IN (...), field=v per value, field NOT IN (...), joined with
\* " AND " in that order.
C11_FilterQueryParam ==
  (qpc = "done" /\ NamedValues) =>
    filterParam = Str(Joined([i \in 1..Len(query.filters) |->
                                ExpectedBlock(query.filters[i])], " AND "))

C11_Witness ==
  /\ qpc = "done"
  /\ query = IQuery(<<IFilter(Undef,
                <<<<Entry("type", Str("Web Map"))>>,
                  <<Entry("tags", Match(Arr(<<Str("x"), Str("y")>>),
                                        Arr(<<Str("x"), Str("y")>>),
                                        Arr(<<Str("x"), Str("y")>>)))>>>>)>>)
  /\ filterParam =
       Str("((type=Web Map) OR (tags IN (x, y) AND tags=x AND tags=y AND tags NOT IN (x, y)))")


(***************************************************************************)
(* Properties of searchOgcItems, checked under SpecSearch.                 *)
(***************************************************************************)
\* the value of a parameter of a request
ParamOf(request, key) ==
  LET i == CHOOSE i \in 1..Len(request.queryParams) : request.queryParams[i].key = key
  IN  request.queryParams[i].value

\* the first link of the response with rel "next", when there is one
HasNextLink(raw) == \E k \in 1..Len(raw.links) : raw.links[k].rel = "next"
NextLinkOf(raw) ==
  LET k == CHOOSE k \in 1..Len(raw.links) :
             /\ raw.links[k].rel = "next"
             /\ \A l \in 1..(k - 1) : raw.links[l].rel # "next"
  IN  raw.links[k]

\* the searchOgcItems calls the n-th next() call made
StartedBy(n) == {c \in 1..Len(ogcCalls) : ogcCalls[c].from = n}

\* C12: hasNext is true exactly when the response has a link with rel
\* "next"; without it next() returns null and issues no request; with it
\* each next() issues exactly one items request, with the original query and
\* the original options but for start, which is the startindex of the next
\* link, so that filter, limit and token are those of the first request.
C12_Pagination ==
  /\ \A i \in 1..Len(ogcOutcomes) :
       ogcOutcomes[i].kind = "resolved" =>
         ogcOutcomes[i].value.hasNext = HasNextLink(ogcOutcomes[i].raw)
  /\ Len(ogcRequests) = Len(ogcCalls)
  /\ \A c \in 1..Len(ogcCalls) : ogcCalls[c].from = 0 <=> c = 1
  /\ \A n \in 1..Len(nextReturns) :
       LET answered == ogcOutcomes[nextReturns[n].of]
       IN  IF ~answered.value.hasNext
           THEN nextReturns[n].returned = Null /\ StartedBy(n) = {}
           ELSE /\ nextReturns[n].returned = Promise
                /\ Cardinality(StartedBy(n)) = 1
                /\ \A c \in StartedBy(n) :
                     /\ ogcCalls[c].query = query
                     /\ [ogcCalls[c].options EXCEPT !.start = searchOptions.start]
                          = searchOptions
                     /\ \A k \in StartIndexes :
                          NextLinkOf(answered.raw).href = NextHref(k) =>
                            /\ ogcCalls[c].options.start = Num(k)
                            /\ ParamOf(ogcRequests[c], "startindex") = Num(k)
                     /\ \A key \in {"filter", "limit", "token"} :
                          ParamOf(ogcRequests[c], key) = ParamOf(ogcRequests[1], key)

C12_Witness ==
  /\ searchOptions = HubSearchOptions(Num(10), Num(1),
                                      HubRequestOptions([token |-> Str("token-1")], Undef))
  /\ Len(ogcRequests) = 2
  /\ ogcRequests[1].url =
       ApiUrl \o "/items?filter=((type=Web Map))&token=token-1&limit=10&startindex=1"
  /\ ogcRequests[2].url =
       ApiUrl \o "/items?filter=((type=Web Map))&token=token-1&limit=10&startindex=11"
  /\ nextReturns = <<[of |-> 1, returned |-> Promise], [of |-> 2, returned |-> Null]>>

\* C16: every call issues exactly one GET request, with
\* options.requestOptions.fetch when it is supplied and with the global fetch
\* otherwise; a response that is not ok makes the call reject with a
\* RemoteServerError that carries the statusText, the full URL requested and
\* the status, without search response or next callback; only an ok
\* response is parsed and formatted.
C16_RequestErrors ==
  /\ Len(ogcRequests) = Len(ogcCalls)
  /\ Len(ogcOutcomes) = Len(ogcCalls) - (IF spc = "fetch" THEN 1 ELSE 0)
  /\ \A c \in 1..Len(ogcCalls) :
       LET supplied == IF ogcCalls[c].options.requestOptions = Undef THEN Undef
                       ELSE ogcCalls[c].options.requestOptions.fetch
       IN  /\ ogcRequests[c].init = [method |-> "GET"]
           /\ ogcRequests[c].fetch = IF supplied = Undef THEN GlobalFetch ELSE supplied
  /\ \A c \in 1..Len(ogcOutcomes) :
       LET outcome == ogcOutcomes[c]
       IN  /\ (outcome.raw # Undef /\ ~outcome.raw.ok) =>
                /\ outcome.kind = "rejected"
                /\ outcome.error =
                     [name |-> "RemoteServerError", message |-> outcome.raw.statusText,
                      url |-> ogcRequests[c].url, status |-> outcome.raw.status]
                /\ "value" \notin DOMAIN outcome
                /\ \A n \in 1..Len(nextReturns) : nextReturns[n].of # c
           /\ outcome.kind = "resolved" =>
                /\ outcome.raw.ok
                /\ outcome.value.total = outcome.raw.numberMatched
                /\ Len(outcome.value.results) = Len(outcome.raw.features)

C16_Witness ==
  /\ searchOptions = HubSearchOptions(Num(10), Undef, HubRequestOptions(Undef, FetchOverride))
  /\ spc = "settled"
  /\ Len(ogcRequests) = 1
  /\ ogcRequests[1].fetch = FetchOverride
  /\ ogcRequests[1].url = ApiUrl \o "/items?filter=((type=Web Map))&limit=10"
  /\ ogcOutcomes = <<[kind |-> "rejected",
                      raw |-> [ok |-> FALSE, status |-> 404, statusText |-> "Not Found"],
                      error |-> [name |-> "RemoteServerError", message |-> "Not Found",
                                 url |-> ApiUrl \o "/items?filter=((type=Web Map))&limit=10",
                                 status |-> 404]]>>

================================================================================
